---- MODULE Spec2Model ----
(***************************************************************************)
(* A model of the DORIS file engine (nav-solutions/doris): the text codecs *)
(* (epoch, observable, ground station), the streaming record parser, the   *)
(* record and header formatters and the DORIS facade queries.              *)
(*                                                                         *)
(* Text is modelled at character level: a string is a sequence of          *)
(* one-character strings, a file is a sequence of lines.  A decimal number *)
(* (an f64 of the program, within the digits the files carry) is a record  *)
(* [neg, int, frac] with frac counted in 1e-9 units.                       *)
(***************************************************************************)
EXTENDS Integers, Sequences, FiniteSets, TLC

VARIABLES
    \* epoch codec: position, the epoch, its text, the epoch read back
    e_pc, e_epoch, e_text, e_parsed,
    \* observable codec: position, the text, parse, format, parse again
    o_pc, o_text, o_first, o_fmt, o_second,
    \* ground station codec: position, the line, the station, its format
    s_pc, s_line, s_station, s_fmt,
    \* record parser and formatter: position, the header, the record written (if
    \* any), the text of the stream, the lines still to read, the buffer of the
    \* current epoch, the record, the result, the history of the stores
    r_pc, header, r_source, r_text, reader, epoch_buf, record, r_status, r_log,
    \* header parser and formatter: position, the lines of the file, the state of
    \* the parse under way, the header parsed, its text, the header parsed again
    h_pc, h_file, h_state, h_first, h_text, h_second,
    \* facade: position, the base name of the path, the lines of the file, the
    \* DORIS loaded or built, the file name derived, the result of substract
    f_pc, f_name, f_file, f_doris, f_out, f_res, f_period,
    \* year rule of the two epoch decoders: position, the year field, the epoch
    \* read in record form, the epoch read in header form
    y_pc, y_field, y_record, y_header,
    \* fmt_doris: position, the content, the marker, the text returned
    t_pc, t_content, t_marker, t_out,
    \* SNR codec: position, the text, the SNR parsed, its '{:x}' format
    n_pc, n_text, n_snr, n_fmt,
    \* header queries: position, the DORIS, the matcher, the station returned by
    \* ground_station, the answer of is_merged
    q_pc, q_doris, q_matcher, q_found, q_merged

epochVars == <<e_pc, e_epoch, e_text, e_parsed>>
obsVars == <<o_pc, o_text, o_first, o_fmt, o_second>>
stationVars == <<s_pc, s_line, s_station, s_fmt>>
recordVars == <<r_pc, header, r_source, r_text, reader, epoch_buf, record, r_status, r_log>>
headerVars == <<h_pc, h_file, h_state, h_first, h_text, h_second>>
facadeVars == <<f_pc, f_name, f_file, f_doris, f_out, f_res, f_period>>
yearVars == <<y_pc, y_field, y_record, y_header>>
fmtVars == <<t_pc, t_content, t_marker, t_out>>
snrVars == <<n_pc, n_text, n_snr, n_fmt>>
queryVars == <<q_pc, q_doris, q_matcher, q_found, q_merged>>
vars == <<epochVars, obsVars, stationVars, recordVars, headerVars, facadeVars, yearVars, fmtVars, snrVars, queryVars>>

\* for each component, the variables of the other ones
epochOthers == <<obsVars, stationVars, recordVars, headerVars, facadeVars, yearVars,
    fmtVars, snrVars, queryVars>>
obsOthers == <<epochVars, stationVars, recordVars, headerVars, facadeVars, yearVars,
    fmtVars, snrVars, queryVars>>
stationOthers == <<epochVars, obsVars, recordVars, headerVars, facadeVars, yearVars,
    fmtVars, snrVars, queryVars>>
recordOthers == <<epochVars, obsVars, stationVars, headerVars, facadeVars, yearVars,
    fmtVars, snrVars, queryVars>>
headerOthers == <<epochVars, obsVars, stationVars, recordVars, facadeVars, yearVars,
    fmtVars, snrVars, queryVars>>
facadeOthers == <<epochVars, obsVars, stationVars, recordVars, headerVars, yearVars,
    fmtVars, snrVars, queryVars>>
yearOthers == <<epochVars, obsVars, stationVars, recordVars, headerVars, facadeVars,
    fmtVars, snrVars, queryVars>>
fmtOthers == <<epochVars, obsVars, stationVars, recordVars, headerVars, facadeVars,
    yearVars, snrVars, queryVars>>
snrOthers == <<epochVars, obsVars, stationVars, recordVars, headerVars, facadeVars,
    yearVars, fmtVars, queryVars>>
queryOthers == <<epochVars, obsVars, stationVars, recordVars, headerVars, facadeVars,
    yearVars, fmtVars, snrVars>>

(***************************************************************************)
(* Characters and strings                                                  *)
(***************************************************************************)
Digits == <<"0", "1", "2", "3", "4", "5", "6", "7", "8", "9">>
IsDigit(c) == \E i \in 1..10 : Digits[i] = c
DigitVal(c) == (CHOOSE i \in 1..10 : Digits[i] = c) - 1
DigitChar(d) == Digits[d + 1]

Rep(c, n) == [i \in 1..n |-> c]

\* char::is_whitespace on the characters the files hold
IsSpace(c) == c \in {" ", "\n", "\t", "\r"}

RECURSIVE TrimStart(_)
TrimStart(s) == IF s # <<>> /\ IsSpace(Head(s)) THEN TrimStart(Tail(s)) ELSE s

RECURSIVE TrimEnd(_)
TrimEnd(s) ==
    IF s # <<>> /\ IsSpace(s[Len(s)]) THEN TrimEnd(SubSeq(s, 1, Len(s) - 1)) ELSE s

\* str::trim
Trim(s) == TrimEnd(TrimStart(s))

\* &s[a..b] of Rust (0-based, end excluded) is defined only when InRange
InRange(s, a, b) == a <= b /\ b <= Len(s)
Slice(s, a, b) == SubSeq(s, a + 1, b)
SliceFrom(s, a) == SubSeq(s, a + 1, Len(s))

\* str::find(char): 0-based index of the first occurrence, -1 for None
Find(s, c) ==
    IF \E i \in 1..Len(s) : s[i] = c
    THEN (CHOOSE i \in 1..Len(s) : s[i] = c /\ \A j \in 1..(i - 1) : s[j] # c) - 1
    ELSE -1

\* str::starts_with / ends_with / contains on strings
StartsWith(s, p) == Len(p) <= Len(s) /\ SubSeq(s, 1, Len(p)) = p
EndsWith(s, p) == Len(p) <= Len(s) /\ SubSeq(s, Len(s) - Len(p) + 1, Len(s)) = p
Contains(s, p) == \E i \in 0..(Len(s) - Len(p)) : SubSeq(s, i + 1, i + Len(p)) = p

\* length of the first token of a string that starts with a non-blank
TokLen(t) ==
    CHOOSE n \in 1..Len(t) :
        /\ \A i \in 1..n : ~IsSpace(t[i])
        /\ (n = Len(t) \/ IsSpace(t[n + 1]))

\* str::split_ascii_whitespace, collected
RECURSIVE SplitWs(_)
SplitWs(s) ==
    LET t == TrimStart(s) IN
    IF t = <<>> THEN <<>>
    ELSE <<SubSeq(t, 1, TokLen(t))>> \o SplitWs(SubSeq(t, TokLen(t) + 1, Len(t)))

\* "{:<w}" and "{:>w}" (the default alignment of numbers)
PadRight(s, w) == IF Len(s) >= w THEN s ELSE s \o Rep(" ", w - Len(s))
PadLeft(s, w) == IF Len(s) >= w THEN s ELSE Rep(" ", w - Len(s)) \o s

(***************************************************************************)
(* Integers as text                                                        *)
(***************************************************************************)
RECURSIVE NatToStr(_)
NatToStr(n) ==
    IF n < 10 THEN <<DigitChar(n)>>
    ELSE NatToStr(n \div 10) \o <<DigitChar(n % 10)>>

\* "{:0w}" of an unsigned integer
ZeroPad(n, w) ==
    LET s == NatToStr(n) IN IF Len(s) >= w THEN s ELSE Rep("0", w - Len(s)) \o s

\* "{}" of a signed integer
IntToStr(n) == IF n < 0 THEN <<"-">> \o NatToStr(0 - n) ELSE NatToStr(n)

AllDigits(s) == s # <<>> /\ \A i \in 1..Len(s) : IsDigit(s[i])

RECURSIVE DigitsVal(_)
DigitsVal(s) ==
    IF s = <<>> THEN 0
    ELSE DigitsVal(SubSeq(s, 1, Len(s) - 1)) * 10 + DigitVal(s[Len(s)])

\* The digit strings of the model hold at most MaxDigits digits, so that every
\* parsed integer fits a 32-bit integer.
MaxDigits == 9

\* str::parse::<uN>(): the value, or -1 for Err. A leading '+' is accepted.
ParseUnsigned(s, max) ==
    LET body == IF s # <<>> /\ Head(s) = "+" THEN Tail(s) ELSE s IN
    IF AllDigits(body) /\ Len(body) <= MaxDigits /\ DigitsVal(body) <= max
    THEN DigitsVal(body)
    ELSE -1

\* str::parse::<iN>(): [ok, val]. A leading '+' or '-' is accepted.
ParseSigned(s, min, max) ==
    LET neg == s # <<>> /\ Head(s) = "-"
        body == IF s # <<>> /\ Head(s) \in {"+", "-"} THEN Tail(s) ELSE s
        ok == AllDigits(body) /\ Len(body) <= MaxDigits
        v == IF ok THEN (IF neg THEN 0 - DigitsVal(body) ELSE DigitsVal(body)) ELSE 0
    IN  [ok |-> ok /\ v >= min /\ v <= max, val |-> v]

(***************************************************************************)
(* Decimal numbers (f64) as text                                           *)
(***************************************************************************)
Nano == 1000000000

Dec(neg, int, frac) ==
    [neg |-> neg /\ (int # 0 \/ frac # 0), int |-> int, frac |-> frac]

DecZero == Dec(FALSE, 0, 0)

\* the fraction digits of a decimal text, as 1e-9 units
FracVal(s) ==
    LET d == IF Len(s) >= 9 THEN SubSeq(s, 1, 9) ELSE s \o Rep("0", 9 - Len(s))
    IN  DigitsVal(d)

\* str::parse::<f64>() on [+-]digits[.digits] (no exponent): [ok, val]
ParseF64(s) ==
    LET signed == s # <<>> /\ Head(s) \in {"+", "-"}
        neg == s # <<>> /\ Head(s) = "-"
        body == IF signed THEN Tail(s) ELSE s
        dot == Find(body, ".")
        ip == IF dot < 0 THEN body ELSE Slice(body, 0, dot)
        fp == IF dot < 0 THEN <<>> ELSE SliceFrom(body, dot + 1)
        ok == /\ Len(ip) + Len(fp) > 0
              /\ Len(ip) <= MaxDigits
              /\ \A i \in 1..Len(ip) : IsDigit(ip[i])
              /\ \A i \in 1..Len(fp) : IsDigit(fp[i])
    IN  [ok |-> ok,
         val |-> IF ok THEN Dec(neg, DigitsVal(ip), FracVal(fp)) ELSE DecZero]

\* "{:.3}" of an f64: rounded to the nearest 1e-3
Fmt3(v) ==
    LET up == (v.frac % 1000000) >= 500000
        ms == (v.frac \div 1000000) + (IF up THEN 1 ELSE 0)
        int == IF ms = 1000 THEN v.int + 1 ELSE v.int
        fr == IF ms = 1000 THEN 0 ELSE ms
    IN  (IF v.neg THEN <<"-">> ELSE <<>>) \o NatToStr(int) \o <<".">> \o ZeroPad(fr, 3)

\* "{:14.3}" of an f64
Fmt14_3(v) == PadLeft(Fmt3(v), 14)

(***************************************************************************)
(* Epoch codec                                                             *)
(***************************************************************************)
\* hifitime's Epoch, as its Gregorian fields in its time scale
MkEpoch(y, m, d, hh, mm, ss, ns, ts) ==
    [y |-> y, m |-> m, d |-> d, hh |-> hh, mm |-> mm, ss |-> ss, ns |-> ns, ts |-> ts]

\* Epoch::from_gregorian_tai and its siblings abort on a date that does not exist
ValidGregorian(y, m, d, hh, mm, ss, ns) ==
    /\ m \in 1..12 /\ d \in 1..31 /\ hh \in 0..23 /\ mm \in 0..59 /\ ss \in 0..60
    /\ ns \in 0..(Nano - 1)

\* the year rule of parse_in_timescale
RecordYear(y) == IF y > 79 /\ y <= 99 THEN y + 1900 ELSE IF y < 79 THEN y + 2000 ELSE y

\* field 5 of parse_in_timescale: [ok, ss, ns]. A fraction of 8 digits, or of more
\* than 9, scales beyond 32-bit integers: the texts of the model hold
\* none, and such a field is not read.
ParseSeconds(item) ==
    LET dot == Find(item, ".") IN
    IF dot >= 0
    THEN LET is_nav == Len(Trim(item)) < 7
             ss == ParseUnsigned(Trim(Slice(item, 0, dot)), 255)
             nanos == Trim(SliceFrom(item, dot + 1))
             ns == ParseUnsigned(nanos, 999999999)
             scaled == IF is_nav THEN ns * 100000000
                       ELSE IF Len(nanos) # 9 THEN ns * 100 ELSE ns
         IN  IF ss < 0 \/ ns < 0 \/ (Len(nanos) # 9 /\ Len(nanos) > 7)
             THEN [ok |-> FALSE, ss |-> 0, ns |-> 0]
             ELSE [ok |-> TRUE, ss |-> ss, ns |-> scaled]
    ELSE LET ss == ParseUnsigned(Trim(item), 255)
         IN  [ok |-> ss >= 0, ss |-> IF ss >= 0 THEN ss ELSE 0, ns |-> 0]

\* parse_in_timescale, once its six fields are read: the year rule, the date
BadEpoch == [st |-> "EpochFormat", epoch |-> <<>>]

EpochFromFields(yy, m, d, hh, mm, sec, ts) ==
    IF ~yy.ok \/ m < 0 \/ d < 0 \/ hh < 0 \/ mm < 0 \/ ~sec.ok THEN BadEpoch
    ELSE IF RecordYear(yy.val) = 0 THEN BadEpoch
    ELSE IF ~ValidGregorian(RecordYear(yy.val), m, d, hh, mm, sec.ss, sec.ns)
    THEN [st |-> "panic", epoch |-> <<>>]
    ELSE [st |-> "ok",
          epoch |-> MkEpoch(RecordYear(yy.val), m, d, hh, mm, sec.ss, sec.ns, ts)]

\* parse_in_timescale, once the content is split on its blanks
EpochFromItems(f, ts) ==
    IF Len(f) < 6 THEN BadEpoch
    ELSE EpochFromFields(ParseSigned(f[1], -999999999, 999999999),
                         ParseUnsigned(f[2], 255), ParseUnsigned(f[3], 255),
                         ParseUnsigned(f[4], 255), ParseUnsigned(f[5], 255),
                         ParseSeconds(f[6]), ts)

\* parse_in_timescale: [st |-> "ok" | "EpochFormat" | "panic", epoch]
parse_in_timescale(content, ts) == EpochFromItems(SplitWs(content), ts)

\* epoch::format: "YYYY MM DD hh mm ss.NNNNNNN", the fraction in 100 ns units
format_epoch(e) ==
    ZeroPad(e.y, 4) \o <<" ">> \o ZeroPad(e.m, 2) \o <<" ">> \o ZeroPad(e.d, 2)
    \o <<" ">> \o ZeroPad(e.hh, 2) \o <<" ">> \o ZeroPad(e.mm, 2) \o <<" ">>
    \o PadLeft(NatToStr(e.ss), 2) \o <<".">> \o ZeroPad(e.ns \div 100, 7)

\* EpochFlag as its digit (Display for EpochFlag)
FlagNames == <<"OK", "PowerFailure", "AntennaBeingMoved", "NewSiteEndofKinematics",
               "HeaderDataFollowing", "ExternalEvent">>
FlagDigit(flag) == (CHOOSE i \in 1..6 : FlagNames[i] = flag) - 1
FormatFlag(flag) == <<DigitChar(FlagDigit(flag))>>

\* the head of an epoch line, as Record::format writes it
FormatEpochHead(e, flag) ==
    <<">", " ">> \o format_epoch(e) \o <<"0", "0", " ", " ">> \o FormatFlag(flag)

EPOCH_SIZE == 32

\* the epoch of an epoch line, as Record::parse reads it
ParseEpochHead(line) ==
    IF ~InRange(line, 2, 2 + EPOCH_SIZE) THEN [st |-> "panic", epoch |-> <<>>]
    ELSE parse_in_timescale(Slice(line, 2, 2 + EPOCH_SIZE), "TAI")

(***************************************************************************)
(* Observable and Frequency codecs                                         *)
(***************************************************************************)
LowerCase == <<"a", "b", "c", "d", "e", "f", "g", "h", "i", "j", "k", "l", "m",
               "n", "o", "p", "q", "r", "s", "t", "u", "v", "w", "x", "y", "z">>
UpperCase == <<"A", "B", "C", "D", "E", "F", "G", "H", "I", "J", "K", "L", "M",
               "N", "O", "P", "Q", "R", "S", "T", "U", "V", "W", "X", "Y", "Z">>

ToUpperChar(c) ==
    IF \E i \in 1..26 : LowerCase[i] = c
    THEN UpperCase[CHOOSE i \in 1..26 : LowerCase[i] = c]
    ELSE c

\* str::to_uppercase
ToUpper(s) == [i \in 1..Len(s) |-> ToUpperChar(s[i])]

\* Observable, a tagged variant; freq is "-" for the variants without frequency
Obs(tag, freq) == [tag |-> tag, freq |-> freq]
PhaseRange(f) == Obs("PhaseRange", f)
PseudoRange(f) == Obs("PseudoRange", f)
Power(f) == Obs("Power", f)
Pressure == Obs("Pressure", "-")
Temperature == Obs("Temperature", "-")
HumidityRate == Obs("HumidityRate", "-")
FrequencyRatio == Obs("FrequencyRatio", "-")

\* Frequency::from_str: [st, val]
FrequencyFromStr(s) ==
    IF s = <<"1">> THEN [st |-> "ok", val |-> "DORIS1"]
    ELSE IF s = <<"2">> THEN [st |-> "ok", val |-> "DORIS2"]
    ELSE [st |-> "Frequency", val |-> "-"]

\* Display for Frequency
FrequencyDisplay(f) == IF f = "DORIS1" THEN <<"1">> ELSE <<"2">>

\* Observable::from_str: [st |-> "ok" | "Frequency" | "ObservableParsing" | "panic", val]
ObservableFromStr(text) ==
    LET content == Trim(ToUpper(text))
        none == Obs("-", "-")
    IN  IF content \in {<<"P">>, <<"P", "R", "E", "S", "S", "U", "R", "E">>}
        THEN [st |-> "ok", val |-> Pressure]
        ELSE IF content \in {<<"T">>,
                             <<"T", "E", "M", "P", "E", "R", "A", "T", "U", "R", "E">>}
        THEN [st |-> "ok", val |-> Temperature]
        ELSE IF content \in {<<"H">>,
                 <<"M", "O", "I", "S", "T", "U", "R", "E", " ", "R", "A", "T", "E">>}
        THEN [st |-> "ok", val |-> HumidityRate]
        ELSE IF content \in {<<"F">>,
                 <<"F", "R", "E", "Q", "U", "E", "N", "C", "Y", " ", "R", "A", "T", "I", "O">>}
        THEN [st |-> "ok", val |-> FrequencyRatio]
        ELSE IF Len(content) < 1 THEN [st |-> "panic", val |-> none]
        ELSE LET frequency == FrequencyFromStr(SliceFrom(content, 1)) IN
             IF frequency.st # "ok" THEN [st |-> "Frequency", val |-> none]
             ELSE IF Head(content) = "L" THEN [st |-> "ok", val |-> PhaseRange(frequency.val)]
             ELSE IF Head(content) = "C" THEN [st |-> "ok", val |-> PseudoRange(frequency.val)]
             ELSE IF Head(content) = "W" THEN [st |-> "ok", val |-> Power(frequency.val)]
             ELSE [st |-> "ObservableParsing", val |-> none]

\* Display for Observable: [ok, text]; the match has no arm for FrequencyRatio
ObservableDisplay(o) ==
    CASE o.tag = "Pressure" ->
            [ok |-> TRUE, text |-> <<"P", "r", "e", "s", "s", "u", "r", "e">>]
      [] o.tag = "Temperature" ->
            [ok |-> TRUE,
             text |-> <<"T", "e", "m", "p", "e", "r", "a", "t", "u", "r", "e">>]
      [] o.tag = "HumidityRate" ->
            [ok |-> TRUE,
             text |-> <<"M", "o", "i", "s", "t", "u", "r", "e", " ", "r", "a", "t", "e">>]
      [] o.tag = "PseudoRange" -> [ok |-> TRUE, text |-> <<"L">> \o FrequencyDisplay(o.freq)]
      [] o.tag = "PhaseRange" -> [ok |-> TRUE, text |-> <<"C">> \o FrequencyDisplay(o.freq)]
      [] o.tag = "Power" -> [ok |-> TRUE, text |-> <<"W">> \o FrequencyDisplay(o.freq)]
      [] OTHER -> [ok |-> FALSE, text |-> <<>>]

(***************************************************************************)
(* DOMES and GroundStation codecs                                          *)
(***************************************************************************)
\* DOMES::from_str (gnss-rs): 9 characters, AAASSPNNN; [ok, val]
DomesFromStr(s) ==
    LET none == [area |-> 0, site |-> 0, point |-> "-", sequential |-> 0] IN
    IF Len(s) # 9 THEN [ok |-> FALSE, val |-> none]
    ELSE LET area == ParseUnsigned(Slice(s, 0, 3), 65535)
             site == ParseUnsigned(Slice(s, 3, 5), 255)
             seq == ParseUnsigned(Slice(s, 6, 9), 65535)
             point == IF s[6] = "M" THEN "Monument"
                      ELSE IF s[6] = "S" THEN "Instrument" ELSE "-"
         IN  IF area < 0 \/ site < 0 \/ seq < 0 \/ point = "-"
             THEN [ok |-> FALSE, val |-> none]
             ELSE [ok |-> TRUE,
                   val |-> [area |-> area, site |-> site, point |-> point,
                            sequential |-> seq]]

\* Display for DOMES (gnss-rs)
DomesDisplay(d) ==
    ZeroPad(d.area, 3) \o ZeroPad(d.site, 2)
    \o (IF d.point = "Monument" THEN <<"M">> ELSE <<"S">>) \o ZeroPad(d.sequential, 3)

GroundStation(code, label, site, domes, rev, k) ==
    [code |-> code, label |-> label, site |-> site, domes |-> domes,
     beacon_revision |-> rev, k_frequency_shift |-> k]

NoDomes == [area |-> 0, site |-> 0, point |-> "-", sequential |-> 0]

NoStation == GroundStation(0, <<>>, <<>>, NoDomes, 0, 0)

\* GroundStation::from_str: [st |-> "ok" | "GroundStation" | "DOMES" | "panic", val].
\* The fields of the struct are evaluated in the order site, label, domes,
\* beacon_revision, k_frequency_shift, code: the first failure is returned.
GroundStationFromStr(content) ==
    IF Len(content) < 40 THEN [st |-> "GroundStation", val |-> NoStation]
    ELSE IF Len(content) < 56 THEN [st |-> "panic", val |-> NoStation]
    ELSE LET key == Slice(content, 1, 5)
             label == Slice(content, 5, 10)
             name == Slice(content, 10, 40)
             domes == DomesFromStr(Trim(Slice(content, 40, 50)))
             gen == ParseUnsigned(Trim(Slice(content, 50, 53)), 255)
             k_factor == ParseSigned(Trim(Slice(content, 53, 56)), -128, 127)
             code == ParseUnsigned(Trim(key), 65535)
         IN  IF ~domes.ok THEN [st |-> "DOMES", val |-> NoStation]
             ELSE IF gen < 0 \/ ~k_factor.ok \/ code < 0
             THEN [st |-> "GroundStation", val |-> NoStation]
             ELSE [st |-> "ok",
                   val |-> GroundStation(code, Trim(label), Trim(name), domes.val,
                                         gen, k_factor.val)]

\* LowerHex for GroundStation: "D{:02}  {} {:<29} {}  {} {:3}"
GroundStationFormat(s) ==
    <<"D">> \o ZeroPad(s.code, 2) \o <<" ", " ">> \o s.label \o <<" ">>
    \o PadRight(s.site, 29) \o <<" ">> \o DomesDisplay(s.domes) \o <<" ", " ">>
    \o NatToStr(s.beacon_revision) \o <<" ">> \o PadLeft(IntToStr(s.k_frequency_shift), 3)

\* GroundStation::matches, for Matcher::ID
MatchesID(s, code) == s.code = code

(***************************************************************************)
(* Record: keys, measurements, the ordered map                             *)
(***************************************************************************)
\* SNR::from_str: [ok, val], val the name of the variant
SNRNames == <<"DbHz0", "DbHz12", "DbHz12_17", "DbHz18_23", "DbHz24_29",
              "DbHz30_35", "DbHz36_41", "DbHz42_47", "DbHz48_53", "DbHz54">>

SNRFromStr(code) ==
    LET c == Trim(code) IN
    IF Len(c) = 1 /\ IsDigit(c[1])
    THEN [ok |-> TRUE, val |-> SNRNames[DigitVal(c[1]) + 1]]
    ELSE IF c = <<"b", "a", "d">> THEN [ok |-> TRUE, val |-> "DbHz18_23"]
    ELSE IF c = <<"w", "e", "a", "k">> THEN [ok |-> TRUE, val |-> "DbHz24_29"]
    ELSE IF c = <<"s", "t", "r", "o", "n", "g">> THEN [ok |-> TRUE, val |-> "DbHz30_35"]
    ELSE IF c = <<"e", "x", "c", "e", "l", "l", "e", "n", "t">>
    THEN [ok |-> TRUE, val |-> "DbHz48_53"]
    ELSE [ok |-> FALSE, val |-> "-"]

\* Observation; snr is "-" for None
Observation(snr, value) == [snr |-> snr, value |-> value]
ObservationDefault == Observation("-", DecZero)

\* Option<ClockOffset>
NoClock == [some |-> FALSE, extrapolated |-> FALSE, offset |-> DecZero]
SomeClock(extrapolated, offset) ==
    [some |-> TRUE, extrapolated |-> extrapolated, offset |-> offset]

\* Measurements; observations is a map from Observable to Observation
Measurements(clock, observations) ==
    [flag |-> "OK", satellite_clock_offset |-> clock, observations |-> observations]
MeasurementsDefault == Measurements(NoClock, <<>>)

\* Measurements::add_observation: HashMap::insert replaces the entry of the key
add_observation(m, observable, observation) ==
    [m EXCEPT !.observations =
        [o \in (DOMAIN m.observations) \cup {observable} |->
            IF o = observable THEN observation ELSE m.observations[o]]]

Key(epoch, flag, station) == [epoch |-> epoch, flag |-> flag, station |-> station]

\* Ord of Epoch, of EpochFlag, of strings and of GroundStation
EpochTuple(e) == <<e.y, e.m, e.d, e.hh, e.mm, e.ss, e.ns>>

RECURSIVE TupleLess(_, _)
TupleLess(a, b) ==
    IF a = <<>> \/ b = <<>> THEN a = <<>> /\ b # <<>>
    ELSE Head(a) < Head(b) \/ (Head(a) = Head(b) /\ TupleLess(Tail(a), Tail(b)))

EpochLess(a, b) == TupleLess(EpochTuple(a), EpochTuple(b))
FlagLess(a, b) == FlagDigit(a) < FlagDigit(b)

Alphabet == <<" ">> \o Digits \o UpperCase \o LowerCase
CharRank(c) == IF \E i \in 1..Len(Alphabet) : Alphabet[i] = c
               THEN CHOOSE i \in 1..Len(Alphabet) : Alphabet[i] = c
               ELSE 0
StrLess(a, b) ==
    TupleLess([i \in 1..Len(a) |-> CharRank(a[i])], [i \in 1..Len(b) |-> CharRank(b[i])])

\* the stations of a roster differ in label, site or code
StationLess(a, b) ==
    \/ StrLess(a.label, b.label)
    \/ a.label = b.label /\ StrLess(a.site, b.site)
    \/ a.label = b.label /\ a.site = b.site /\ a.code < b.code

\* Ord of Key: epoch, then flag, then station
KeyLess(a, b) ==
    \/ EpochLess(a.epoch, b.epoch)
    \/ a.epoch = b.epoch /\ FlagLess(a.flag, b.flag)
    \/ a.epoch = b.epoch /\ a.flag = b.flag /\ StationLess(a.station, b.station)

\* BTreeMap<Key, Measurements>: a sequence of entries, in key order
Entry(key, val) == [key |-> key, val |-> val]

\* BTreeMap::get: the index of the entry of the key, 0 for None
MapGet(map, key) ==
    IF \E i \in 1..Len(map) : map[i].key = key
    THEN CHOOSE i \in 1..Len(map) : map[i].key = key
    ELSE 0

\* a map that is not ordered: a new entry goes last
MapPush(map, key, val) ==
    IF MapGet(map, key) # 0
    THEN [map EXCEPT ![MapGet(map, key)] = Entry(key, val)]
    ELSE Append(map, Entry(key, val))

\* BTreeMap::insert: replaces the entry of the key, or places it in key order
MapInsert(map, key, val) ==
    IF MapGet(map, key) # 0
    THEN [map EXCEPT ![MapGet(map, key)] = Entry(key, val)]
    ELSE LET n == Cardinality({i \in 1..Len(map) : KeyLess(map[i].key, key)})
         IN  SubSeq(map, 1, n) \o <<Entry(key, val)>> \o SubSeq(map, n + 1, Len(map))

\* Record
MkRecord(comments, measurements) == [comments |-> comments, measurements |-> measurements]
RecordDefault == MkRecord(<<>>, <<>>)

\* Iterator::unique (itertools): the first occurrence of each item, in order
RECURSIVE Unique(_)
Unique(s) ==
    IF s = <<>> THEN <<>>
    ELSE LET init == Unique(SubSeq(s, 1, Len(s) - 1)) IN
         IF \E i \in 1..Len(init) : init[i] = s[Len(s)] THEN init
         ELSE Append(init, s[Len(s)])

\* Record::epochs_iter
epochs_iter(rec) ==
    Unique([i \in 1..Len(rec.measurements) |->
              <<rec.measurements[i].key.epoch, rec.measurements[i].key.flag>>])

(***************************************************************************)
(* Record::parse                                                           *)
(***************************************************************************)
CLOCK_OFFSET == 38
CLOCK_SIZE == 14
OBSERVABLE_WIDTH == 14

\* what the reader yields in place of a line when a read fails (io::Error)
IoError == <<"IoError">>

\* the lines of a text, each with its line feed (BufRead::read_line)
RECURSIVE ReadLines(_)
ReadLines(text) ==
    IF text = <<>> THEN <<>>
    ELSE LET i == Find(text, "\n") IN
         IF i < 0 THEN <<text>>
         ELSE <<SubSeq(text, 1, i + 1)>> \o ReadLines(SubSeq(text, i + 2, Len(text)))

\* str::lines: the lines of a text, without their line feed
StrLines(text) ==
    LET ls == ReadLines(text) IN
    [i \in 1..Len(ls) |->
        IF ls[i][Len(ls[i])] = "\n" THEN SubSeq(ls[i], 1, Len(ls[i]) - 1) ELSE ls[i]]

\* header.ground_stations.iter().filter(matches).reduce(|k, _| k)
FindStation(roster, code) ==
    IF \E i \in 1..Len(roster) : MatchesID(roster[i], code)
    THEN [some |-> TRUE,
          val |-> roster[CHOOSE i \in 1..Len(roster) :
                            /\ MatchesID(roster[i], code)
                            /\ \A j \in 1..(i - 1) : ~MatchesID(roster[j], code)]]
    ELSE [some |-> FALSE, val |-> NoStation]

\* The state of the parse of one epoch buffer: the locals of the loop, the record,
\* and the history of the stores (for each store: the key, the cell position, the
\* code on the 'D' line of its sub-block, the number written in the cell).
ParseState(status, epoch, station, clock, obs_ptr, block, rec, log) ==
    [status |-> status, epoch |-> epoch, station |-> station, clock |-> clock,
     obs_ptr |-> obs_ptr, block |-> block, rec |-> rec, log |-> log]

\* the store of one cell: lines 152-173 of the parser
StoreCell(s, key, observable, written) ==
    LET map == s.rec.measurements
        at == MapGet(map, key)
        measurements ==
            IF at # 0 THEN add_observation(map[at].val, observable, ObservationDefault)
            ELSE [add_observation(MeasurementsDefault, observable, ObservationDefault)
                     EXCEPT !.satellite_clock_offset = s.clock]
    IN  [s EXCEPT
            !.rec.measurements = MapInsert(map, key, measurements),
            !.log = Append(s.log, [key |-> key, index |-> s.obs_ptr,
                                   block |-> s.block, written |-> written])]

\* the SNR of one cell: lines 183-199 of the parser
StoreSNR(s, key, observable, snr) ==
    LET map == s.rec.measurements
        at == MapGet(map, key)
    IN  IF at # 0 /\ observable \in DOMAIN map[at].val.observations
        THEN [s EXCEPT !.rec.measurements[at].val.observations[observable].snr = snr]
        ELSE s

\* one cell, its number and its SNR read: the number is stored, then the SNR,
\* and the cell position moves on
CellStored(s, key, observable, value, snr) ==
    [(IF snr.ok
      THEN StoreSNR(IF value.ok THEN StoreCell(s, key, observable, value.val) ELSE s,
                    key, observable, snr.val)
      ELSE IF value.ok THEN StoreCell(s, key, observable, value.val) ELSE s)
        EXCEPT !.obs_ptr = s.obs_ptr + 1]

\* the loop over the cells of one line: lines 141-232 of the parser
RECURSIVE CellLoop(_, _, _, _, _)
CellNext(line, offset, key, observables, s) ==
    IF offset + OBSERVABLE_WIDTH + 2 >= Len(line) \/ s.obs_ptr >= Len(observables) THEN s
    ELSE CellLoop(line, offset + OBSERVABLE_WIDTH + 2, key, observables, s)

CellAt(line, offset, key, observables, s, value, snr) ==
    IF /\ value.ok \/ (snr.ok /\ MapGet(s.rec.measurements, key) # 0)
       /\ s.obs_ptr >= Len(observables)
    THEN [s EXCEPT !.status = "panic"]
    ELSE CellNext(line, offset, key, observables,
                  CellStored(s, key, observables[s.obs_ptr + 1], value, snr))

CellLoop(line, offset, key, observables, s) ==
    CellAt(line, offset, key, observables, s,
           IF offset + OBSERVABLE_WIDTH + 1 < Len(line)
           THEN ParseF64(Trim(Slice(line, offset, offset + OBSERVABLE_WIDTH)))
           ELSE [ok |-> FALSE, val |-> DecZero],
           IF offset + OBSERVABLE_WIDTH + 1 < Len(line)
           THEN SNRFromStr(Slice(line, offset + OBSERVABLE_WIDTH,
                                 offset + OBSERVABLE_WIDTH + 1))
           ELSE [ok |-> FALSE, val |-> "-"])

\* a reading of line 0 that takes every clock offset for a measured one
ClockReadMeasured(line, s, epoch, secs) ==
    IF ~secs.ok THEN [s EXCEPT !.status = "ClockOffset"]
    ELSE [s EXCEPT !.epoch = epoch, !.clock = SomeClock(FALSE, secs.val)]

\* line 0 of an epoch buffer: lines 81-103 of the parser
ClockRead(line, s, epoch, secs) ==
    IF ~secs.ok THEN [s EXCEPT !.status = "ClockOffset"]
    ELSE [s EXCEPT !.epoch = epoch,
                   !.clock = SomeClock(
                       /\ Len(line) > CLOCK_OFFSET + CLOCK_SIZE
                       /\ Trim(SliceFrom(line, CLOCK_OFFSET + CLOCK_SIZE)) = <<"1">>,
                       secs.val)]

EpochRead(line, s, e) ==
    IF e.st # "ok" THEN [s EXCEPT !.status = e.st]
    ELSE IF ~InRange(line, CLOCK_OFFSET, CLOCK_OFFSET + CLOCK_SIZE)
    THEN [s EXCEPT !.status = "panic"]
    ELSE ClockRead(line, s, e.epoch,
                   ParseF64(Trim(Slice(line, CLOCK_OFFSET, CLOCK_OFFSET + CLOCK_SIZE))))

ParseEpochLine(line, s) ==
    IF ~InRange(line, 2, 2 + EPOCH_SIZE) THEN [s EXCEPT !.status = "panic"]
    ELSE EpochRead(line, s, parse_in_timescale(Slice(line, 2, 2 + EPOCH_SIZE), "TAI"))

\* a line after line 0 of an epoch buffer: lines 105-233 of the parser. The
\* parser builds its key from the epoch and the station: the flag of the key is
\* the default one.
ParseStationLine(line, hdr, s) ==
    LET opens == StartsWith(line, <<"D">>)
        code == IF opens /\ InRange(line, 1, 3)
                THEN ParseUnsigned(Trim(Slice(line, 1, 3)), 65535) ELSE -1
        found == FindStation(hdr.ground_stations, code)
        s1 == IF opens
              THEN [s EXCEPT !.obs_ptr = 0, !.block = code,
                             !.station = IF found.some THEN found ELSE s.station]
              ELSE s
    IN  IF opens /\ ~InRange(line, 1, 3) THEN [s EXCEPT !.status = "panic"]
        ELSE IF opens /\ code < 0 THEN [s EXCEPT !.status = "StationFormat"]
        ELSE IF ~s1.station.some THEN s1
        ELSE CellLoop(line, 3, Key(s1.epoch, "OK", s1.station.val),
                      hdr.observables, s1)

\* the loop over the lines of an epoch buffer: lines 78-235 of the parser
RECURSIVE ParseLines(_, _, _, _)
ParseLines(lines, nth, hdr, s) ==
    IF nth > Len(lines) \/ s.status # "ok" THEN s
    ELSE ParseLines(lines, nth + 1, hdr,
                    IF nth = 1 THEN ParseEpochLine(lines[nth], s)
                    ELSE ParseStationLine(lines[nth], hdr, s))

NoEpoch == MkEpoch(0, 0, 0, 0, 0, 0, 0, "TAI")

\* the dispatch of a complete epoch buffer: [status, record, log]
ParseEpochBuf(buf, hdr, rec, log) ==
    ParseLines(StrLines(buf), 1, hdr,
               ParseState("ok", NoEpoch, [some |-> FALSE, val |-> NoStation], NoClock,
                          0, -1, rec, log))

\* line 55-56 of the parser: the line read is a comment
IsComment(line) ==
    Len(line) > 60 /\ Contains(line, <<"C", "O", "M", "M", "E", "N", "T">>)

\* The state of the loop of Record::parse
LoopState(pc, lines, buf, rec, status, log) ==
    [pc |-> pc, reader |-> lines, epoch_buf |-> buf, rec |-> rec, status |-> status,
     log |-> log]

\* a dispatch that does not clear the epoch buffer
DispatchedStacked(s, p, eos) ==
    IF p.status # "ok"
    THEN [s EXCEPT !.status = p.status, !.pc = "failed", !.log = p.log]
    ELSE IF eos
    THEN [s EXCEPT !.status = "ok", !.pc = "done", !.rec = p.rec, !.log = p.log]
    ELSE [s EXCEPT !.status = "ok", !.rec = p.rec, !.log = p.log,
                   !.epoch_buf = @ \o Head(s.reader), !.reader = Tail(@)]

\* the epoch buffer is dispatched: its error ends the parse, the end of the
\* stream too, a '>' line opens the next buffer
Dispatched(s, p, eos) ==
    IF p.status # "ok"
    THEN [s EXCEPT !.status = p.status, !.pc = "failed", !.log = p.log]
    ELSE IF eos
    THEN [s EXCEPT !.status = "ok", !.pc = "done", !.rec = p.rec, !.log = p.log]
    ELSE [s EXCEPT !.status = "ok", !.rec = p.rec, !.log = p.log,
                   !.epoch_buf = Head(s.reader), !.reader = Tail(@)]

\* one turn of the loop: a failed read ends the loop (while let Ok(..)) and the
\* record read so far is returned; a comment line is stored; a '>' line, or the
\* end of the stream, dispatches the epoch buffer; any other line is stacked
RecordTurn(s, hdr) ==
    IF s.reader # <<>> /\ Head(s.reader) = IoError
    THEN [s EXCEPT !.status = "ok", !.pc = "done"]
    ELSE IF s.reader # <<>> /\ IsComment(Head(s.reader))
    THEN [s EXCEPT !.rec.comments = Append(@, TrimEnd(Slice(Head(s.reader), 0, 60))),
                   !.reader = Tail(@)]
    ELSE IF s.reader = <<>> \/ StartsWith(Head(s.reader), <<">">>)
    THEN Dispatched(s, ParseEpochBuf(s.epoch_buf, hdr, s.rec, s.log), s.reader = <<>>)
    ELSE [s EXCEPT !.epoch_buf = @ \o Head(s.reader), !.reader = Tail(@)]

\* Record::parse: the loop, from the lines that follow the header
RECURSIVE RecordLoop(_, _)
RecordLoop(s, hdr) == IF s.pc # "reading" THEN s ELSE RecordLoop(RecordTurn(s, hdr), hdr)

RecordParse(lines, hdr) ==
    RecordLoop(LoopState("reading", lines, <<>>, RecordDefault, "ok", <<>>), hdr)

(***************************************************************************)
(* Record::format                                                          *)
(***************************************************************************)
RECURSIVE Concat(_)
Concat(ss) == IF ss = <<>> THEN <<>> ELSE Head(ss) \o Concat(Tail(ss))

\* the cells of one station: lines 67-96 of the formatter
FormatCells(station, measurements, observables) ==
    LET num_observables == Len(observables) IN
    Concat([nth \in 1..num_observables |->
        (IF nth = 1 THEN <<"D">> \o ZeroPad(station.code, 2) ELSE <<>>)
        \o (IF observables[nth] \in DOMAIN measurements.observations
            THEN Fmt14_3(measurements.observations[observables[nth]].value)
                 \o <<" ", " ">>
                 \o (IF nth = num_observables \/ (nth - 1) % 5 = 4
                     THEN <<"\n">> ELSE <<>>)
            ELSE <<>>)])

\* one station of an epoch: lines 46-98 of the formatter
FormatStation(rec, hdr, epoch, flag, station) ==
    LET at == MapGet(rec.measurements, Key(epoch, flag, station)) IN
    IF at = 0 THEN <<>>
    ELSE LET measurements == rec.measurements[at].val
             clock == measurements.satellite_clock_offset
         IN  (IF clock.some
              THEN Fmt14_3(clock.offset) \o <<" ">>
                   \o (IF clock.extrapolated THEN <<"1">> ELSE <<"0">>) \o <<"\n">>
              ELSE <<"\n">>)
             \o FormatCells(station, measurements, hdr.observables)

\* one epoch: lines 21-103 of the formatter
FormatEpoch(rec, hdr, epoch, flag) ==
    LET roster == hdr.ground_stations
        num_stations ==
            Cardinality({i \in 1..Len(roster) :
                MapGet(rec.measurements, Key(epoch, flag, roster[i])) # 0})
    IN  FormatEpochHead(epoch, flag) \o PadLeft(NatToStr(num_stations), 3)
        \o (IF flag \in {"OK", "PowerFailure"}
            THEN Concat([i \in 1..Len(roster) |->
                            FormatStation(rec, hdr, epoch, flag, roster[i])])
            ELSE <<>>)

\* Record::format
RecordFormat(rec, hdr) ==
    LET epochs == epochs_iter(rec) IN
    Concat([i \in 1..Len(epochs) |->
               FormatEpoch(rec, hdr, epochs[i][1], epochs[i][2])])

(***************************************************************************)
(* Header: Version, COSPAR, the time of first and last observation         *)
(***************************************************************************)
\* Option<String>, Option<Epoch>, Option<COSPAR>
None == [some |-> FALSE, val |-> <<>>]
Some(v) == [some |-> TRUE, val |-> v]

\* a trimmed field of a line: Some(text) when it is not empty
Field(text) == IF Len(Trim(text)) > 0 THEN Some(Trim(text)) ELSE None

\* Version::from_str, on "MM.mm": [ok, val]
VersionFromStr(s) ==
    LET dot == Find(s, ".")
        major == IF dot < 0 THEN ParseUnsigned(s, 255)
                 ELSE ParseUnsigned(Slice(s, 0, dot), 255)
        minor == IF dot < 0 THEN 0 ELSE ParseUnsigned(SliceFrom(s, dot + 1), 255)
    IN  IF major < 0 \/ minor < 0 THEN [ok |-> FALSE, val |-> <<0, 0>>]
        ELSE [ok |-> TRUE, val |-> <<major, minor>>]

VersionDefault == <<3, 0>>

\* COSPAR::from_str (gnss-rs), on "YYYY-NNNA": [ok, val]
CosparFromStr(s) ==
    LET year == IF Len(s) >= 9 THEN ParseUnsigned(Slice(s, 0, 4), 65535) ELSE -1
        launch == IF Len(s) >= 9 THEN ParseUnsigned(Slice(s, 5, 8), 65535) ELSE -1
    IN  IF Len(s) < 9 \/ s[5] # "-" \/ year < 0 \/ launch < 0
        THEN [ok |-> FALSE, val |-> <<0, 0, <<>>>>]
        ELSE [ok |-> TRUE, val |-> <<year, launch, SliceFrom(s, 8)>>]

\* Display for COSPAR (gnss-rs)
CosparDisplay(c) == ZeroPad(c[1], 4) \o <<"-">> \o ZeroPad(c[2], 3) \o c[3]

\* TimeScale::from_str (hifitime), on the tags the files carry: [ok, val]
TimeScaleFromStr(s) ==
    IF s \in {<<"T", "A", "I">>, <<"U", "T", "C">>, <<"T", "T">>} THEN [ok |-> TRUE, val |-> s]
    ELSE IF s \in {<<"G", "P", "S">>, <<"G", "P", "S", "T">>} THEN [ok |-> TRUE, val |-> <<"G", "P", "S", "T">>]
    ELSE [ok |-> FALSE, val |-> <<"T", "A", "I">>]

\* the year rule of parse_time_of_obs
HeaderYear(y) == IF y >= 79 /\ y <= 99 THEN y + 1900 ELSE IF y < 79 THEN y + 2000 ELSE y

\* parse_time_of_obs, once its fields are read. The digits of the fraction are
\* printed with "{:08}" behind the dot of the text that Epoch::from_str reads: 8
\* digits count 10 ns each.
TimeOfObsRead(y, m, d, hh, mm, ss, ns, ts) ==
    IF y < 0 \/ m < 0 \/ d < 0 \/ hh < 0 \/ mm < 0 \/ ss < 0 \/ ns < 0
    THEN [st |-> "DatetimeParsing", epoch |-> NoEpoch]
    ELSE IF ~ts.ok THEN [st |-> "EpochParsing", epoch |-> NoEpoch]
    ELSE IF ~ValidGregorian(HeaderYear(y), m, d, hh, mm, ss, ns * 10)
    THEN [st |-> "DatetimeParsing", epoch |-> NoEpoch]
    ELSE [st |-> "ok",
          epoch |-> MkEpoch(HeaderYear(y), m, d, hh, mm, ss, ns * 10,
                            IF ts.val = <<"T", "A", "I">> THEN "TAI" ELSE ts.val)]

\* the time scale of parse_time_of_obs: TAI unless a tag other than DOR follows
TimeOfObsScale(rem) ==
    IF rem # <<>> /\ rem # <<"D", "O", "R">> THEN TimeScaleFromStr(rem)
    ELSE [ok |-> TRUE, val |-> <<"T", "A", "I">>]

\* Header::parse_time_of_obs: [st |-> "ok" | "DatetimeParsing" | "EpochParsing" |
\* "panic", epoch]
parse_time_of_obs(content) ==
    IF ~InRange(content, 0, 44) THEN [st |-> "panic", epoch |-> NoEpoch]
    ELSE TimeOfObsRead(ParseUnsigned(Trim(Slice(content, 2, 6)), 999999999),
                       ParseUnsigned(Trim(Slice(content, 6, 12)), 255),
                       ParseUnsigned(Trim(Slice(content, 12, 18)), 255),
                       ParseUnsigned(Trim(Slice(content, 18, 24)), 255),
                       ParseUnsigned(Trim(Slice(content, 24, 30)), 255),
                       ParseUnsigned(Trim(Slice(content, 30, 35)), 255),
                       ParseUnsigned(Trim(Slice(content, 36, 44)), 99999999),
                       TimeOfObsScale(Trim(SliceFrom(content, 44))))

\* the content of a TIME OF FIRST / LAST OBS line, as Header::format writes it:
\* "{:6} {:5} {:5} {:5} {:5} {:4}.{}    DOR"
FormatTimeOfObs(e) ==
    PadLeft(NatToStr(e.y), 6) \o <<" ">> \o PadLeft(NatToStr(e.m), 5) \o <<" ">>
    \o PadLeft(NatToStr(e.d), 5) \o <<" ">> \o PadLeft(NatToStr(e.hh), 5) \o <<" ">>
    \o PadLeft(NatToStr(e.mm), 5) \o <<" ">> \o PadLeft(NatToStr(e.ss), 4) \o <<".">>
    \o NatToStr(e.ns) \o <<" ", " ", " ", " ", "D", "O", "R">>

(***************************************************************************)
(* Header::parse and Header::format                                        *)
(***************************************************************************)
\* Header, on the fields the model follows
HeaderDefault ==
    [version |-> VersionDefault, comments |-> <<>>, satellite |-> <<>>,
     program |-> None, run_by |-> None, date |-> None, observer |-> None,
     agency |-> None, cospar |-> None, observables |-> <<>>,
     ground_stations |-> <<>>, time_of_first_observation |-> None,
     time_of_last_observation |-> None]

\* one chunk of fmt_doris: line i of nb_lines, padded to 60 columns, the marker,
\* and a line feed when another line follows
FmtChunk(content, marker, i, nb_lines) ==
    PadRight(SubSeq(content, (i - 1) * 60 + 1,
                    IF (i - 1) * 60 + 60 < Len(content) THEN (i - 1) * 60 + 60
                    ELSE Len(content)), 60)
    \o marker \o (IF i < nb_lines THEN <<"\n">> ELSE <<>>)

\* a wrapping whose number of lines is rounded down
fmt_doris_floor(content, marker) ==
    IF Len(content) < 60 THEN PadRight(content, 60) \o marker
    ELSE Concat([i \in 1..(Len(content) \div 60) |->
                    FmtChunk(content, marker, i, Len(content) \div 60)])

\* fmt_doris: a content shorter than 60 is padded to 60 columns and followed by
\* the marker; a longer one goes in div_ceil(len, 60) chunks of 60 columns
fmt_doris(content, marker) ==
    IF Len(content) < 60 THEN PadRight(content, 60) \o marker
    ELSE Concat([i \in 1..((Len(content) + 59) \div 60) |->
                    FmtChunk(content, marker, i, (Len(content) + 59) \div 60)])

\* "{:x}" of an Observable: its code in the header
ObservableCode(o) ==
    CASE o.tag = "PhaseRange" -> <<"L">> \o FrequencyDisplay(o.freq)
      [] o.tag = "PseudoRange" -> <<"C">> \o FrequencyDisplay(o.freq)
      [] o.tag = "Power" -> <<"W">> \o FrequencyDisplay(o.freq)
      [] o.tag = "Pressure" -> <<"P">>
      [] o.tag = "Temperature" -> <<"T">>
      [] o.tag = "HumidityRate" -> <<"H">>
      [] OTHER -> <<"F">>

\* Header::parse_doris_observables: the codes that parse, appended
RECURSIVE ParseObservables(_)
ParseObservables(items) ==
    IF items = <<>> THEN <<>>
    ELSE LET o == ObservableFromStr(Head(items)) IN
         (IF o.st = "ok" THEN <<o.val>> ELSE <<>>) \o ParseObservables(Tail(items))

parse_doris_observables(line) ==
    IF ~InRange(line, 0, 6) THEN <<>> ELSE ParseObservables(SplitWs(SliceFrom(line, 6)))

\* the package version written in the program field
PkgVersion == <<"0", ".", "1", ".", "0">>

\* Header::format_prog_runby
format_prog_runby(h) ==
    fmt_doris(
        PadRight(<<"d", "o", "r", "i", "s", "-", "r", "s", " ", "v">> \o PkgVersion, 20)
        \o (IF h.run_by.some THEN PadRight(h.run_by.val, 20) ELSE Rep(" ", 20))
        \o (IF h.date.some THEN h.date.val ELSE Rep(" ", 20)),
        <<"P", "G", "M", " ", "/", " ", "R", "U", "N", " ", "B", "Y", " ", "/", " ", "D", "A", "T", "E">>) \o <<"\n">>

\* Header::format_observer_agency
format_observer_agency(h) ==
    fmt_doris(
        (IF h.observer.some THEN PadRight(h.observer.val, 20) ELSE Rep(" ", 20))
        \o (IF h.agency.some THEN h.agency.val ELSE Rep(" ", 20)),
        <<"O", "B", "S", "E", "R", "V", "E", "R", " ", "/", " ", "A", "G", "E", "N", "C", "Y">>) \o <<"\n">>

\* Header::format
HeaderFormat(h) ==
    fmt_doris(PadLeft(NatToStr(h.version[1]), 6) \o <<".">> \o ZeroPad(h.version[2], 2)
              \o Rep(" ", 11) \o <<"O">> \o Rep(" ", 19) \o <<"D">>,
              <<"R", "I", "N", "E", "X", " ", "V", "E", "R", "S", "I", "O", "N", " ", "/", " ", "T", "Y", "P", "E">>) \o <<"\n">>
    \o fmt_doris(h.satellite, <<"S", "A", "T", "E", "L", "L", "I", "T", "E", " ", "N", "A", "M", "E">>) \o <<"\n">>
    \o (IF h.cospar.some
        THEN fmt_doris(CosparDisplay(h.cospar.val), <<"C", "O", "S", "P", "A", "R">>) \o <<"\n">> ELSE <<>>)
    \o format_prog_runby(h)
    \o format_observer_agency(h)
    \o fmt_doris(<<"D", " ">> \o PadLeft(NatToStr(Len(h.observables)), 10)
                 \o Concat([i \in 1..Len(h.observables) |->
                               <<" ">> \o ObservableCode(h.observables[i])]),
                 <<"S", "Y", "S", " ", "/", " ", "#", " ", "/", " ", "O", "B", "S", " ", "T", "Y", "P", "E", "S">>) \o <<"\n">>
    \o (IF h.time_of_first_observation.some
        THEN fmt_doris(FormatTimeOfObs(h.time_of_first_observation.val),
                       <<"T", "I", "M", "E", " ", "O", "F", " ", "F", "I", "R", "S", "T", " ", "O", "B", "S">>) \o <<"\n">>
        ELSE <<>>)
    \o (IF h.time_of_last_observation.some
        THEN fmt_doris(FormatTimeOfObs(h.time_of_last_observation.val),
                       <<"T", "I", "M", "E", " ", "O", "F", " ", "L", "A", "S", "T", " ", "O", "B", "S">>) \o <<"\n">>
        ELSE <<>>)
    \o fmt_doris(PadLeft(NatToStr(Len(h.ground_stations)), 6), <<"#", " ", "O", "F", " ", "S", "T", "A", "T", "I", "O", "N", "S">>)
    \o <<"\n">>
    \o Concat([i \in 1..Len(h.ground_stations) |->
                 fmt_doris(GroundStationFormat(h.ground_stations[i]),
                           <<"S", "T", "A", "T", "I", "O", "N", " ", "R", "E", "F", "E", "R", "E", "N", "C", "E">>) \o <<"\n">>])
    \o fmt_doris(<<>>, <<"E", "N", "D", " ", "O", "F", " ", "H", "E", "A", "D", "E", "R">>) \o <<"\n">>

\* BufRead::lines: a line of the reader, without its line feed
StripFeed(line) ==
    IF line # <<>> /\ line[Len(line)] = "\n" THEN SubSeq(line, 1, Len(line) - 1) ELSE line

\* The state of Header::parse: the result so far, the header read so far, the
\* lines still to read
HeaderState(status, h, lines) == [status |-> status, h |-> h, lines |-> lines]

\* a field of the header, replaced when the line holds one
Given(field, old) == IF field.some THEN field ELSE old

\* the branches of the dispatch, once the line is read
\* Type::from_str, of a type field that is not the one of DORIS: any other file
\* type is refused as an invalid DORIS file
TypeFromStr(type_str) == [ok |-> FALSE, err |-> "InvalidDoris"]

\* a version line accepted on its type field or on its constellation field
VersionLineEither(s, type_str, constell_str, version) ==
    IF ~(type_str = <<"O">> \/ constell_str = <<"D">>) /\ ~TypeFromStr(type_str).ok
    THEN [s EXCEPT !.status = TypeFromStr(type_str).err]
    ELSE IF ~version.ok THEN [s EXCEPT !.status = "VersionParsing"]
    ELSE [s EXCEPT !.h.version = version.val]

VersionLine(s, type_str, constell_str, version) ==
    IF ~(type_str = <<"O">> /\ constell_str = <<"D">>) /\ ~TypeFromStr(type_str).ok
    THEN [s EXCEPT !.status = TypeFromStr(type_str).err]
    ELSE IF ~version.ok THEN [s EXCEPT !.status = "VersionParsing"]
    ELSE [s EXCEPT !.h.version = version.val]

TimeOfFirstObsLine(s, e) ==
    IF e.st # "ok" THEN [s EXCEPT !.status = e.st]
    ELSE [s EXCEPT !.h.time_of_first_observation = Some(e.epoch)]

TimeOfLastObsLine(s, e) ==
    IF e.st # "ok" THEN [s EXCEPT !.status = e.st]
    ELSE [s EXCEPT !.h.time_of_last_observation = Some(e.epoch)]

CosparLine(s, c) ==
    IF ~c.ok THEN [s EXCEPT !.status = "COSPAR"] ELSE [s EXCEPT !.h.cospar = Some(c.val)]

StationLine60(s, station) ==
    IF station.st # "ok" THEN [s EXCEPT !.status = station.st]
    ELSE [s EXCEPT !.h.ground_stations = Append(@, station.val)]

\* the dispatch of one line on its marker: lines 45-242 of the parser. The state
\* is "ok" (next line), "end" (END OF HEADER) or the error returned.
HeaderDispatch(s, line, content, marker) ==
    IF marker = <<"E", "N", "D", " ", "O", "F", " ", "H", "E", "A", "D", "E", "R">> THEN [s EXCEPT !.status = "end"]
    ELSE IF marker = <<"C", "O", "M", "M", "E", "N", "T">>
    THEN [s EXCEPT !.h.comments = Append(@, Trim(content))]
    ELSE IF Contains(marker, <<"R", "I", "N", "E", "X", " ", "V", "E", "R", "S", "I", "O", "N", " ", "/", " ", "T", "Y", "P", "E">>)
    THEN VersionLine(s, Trim(Slice(line, 20, 40)), Trim(Slice(line, 40, 60)),
                     VersionFromStr(Trim(Slice(line, 0, 20))))
    ELSE IF Contains(marker, <<"P", "G", "M", " ", "/", " ", "R", "U", "N", " ", "B", "Y", " ", "/", " ", "D", "A", "T", "E">>)
    THEN [s EXCEPT !.h.program = Given(Field(Slice(line, 0, 20)), @),
                   !.h.run_by = Given(Field(Slice(line, 20, 40)), @),
                   !.h.date = Given(Field(Slice(line, 40, 60)), @)]
    ELSE IF Contains(marker, <<"O", "B", "S", "E", "R", "V", "E", "R", " ", "/", " ", "A", "G", "E", "N", "C", "Y">>)
    THEN [s EXCEPT !.h.observer = Given(Field(Slice(content, 0, 20)), @),
                   !.h.agency = Given(Field(SliceFrom(content, 20)), @)]
    ELSE IF Contains(marker, <<"#", " ", "O", "F", " ", "S", "T", "A", "T", "I", "O", "N", "S">>) THEN s
    ELSE IF Contains(marker, <<"T", "I", "M", "E", " ", "O", "F", " ", "F", "I", "R", "S", "T", " ", "O", "B", "S">>)
    THEN TimeOfFirstObsLine(s, parse_time_of_obs(content))
    ELSE IF Contains(marker, <<"T", "I", "M", "E", " ", "O", "F", " ", "L", "A", "S", "T", " ", "O", "B", "S">>)
    THEN TimeOfLastObsLine(s, parse_time_of_obs(content))
    ELSE IF Contains(marker, <<"S", "Y", "S", " ", "/", " ", "#", " ", "/", " ", "O", "B", "S", " ", "T", "Y", "P", "E", "S">>)
    THEN [s EXCEPT !.h.observables = @ \o parse_doris_observables(content)]
    ELSE IF Contains(marker, <<"C", "O", "S", "P", "A", "R", " ", "N", "U", "M", "B", "E", "R">>)
    THEN CosparLine(s, CosparFromStr(Trim(content)))
    ELSE IF Contains(marker, <<"S", "T", "A", "T", "I", "O", "N", " ", "R", "E", "F", "E", "R", "E", "N", "C", "E">>)
    THEN StationLine60(s, GroundStationFromStr(Trim(content)))
    ELSE s

HeaderLine(s, line) == HeaderDispatch(s, line, Slice(line, 0, 60), Trim(SliceFrom(line, 60)))

\* one turn of the loop of Header::parse, on the lines of the reader (each with
\* its line feed): a failed read is passed over (line.is_err() => continue), a
\* line shorter than 60 is skipped, the others are dispatched; the end of the
\* lines ends the loop as END OF HEADER does
HeaderTurn(s) ==
    IF s.lines = <<>> THEN [s EXCEPT !.status = "end"]
    ELSE IF Head(s.lines) = IoError THEN [s EXCEPT !.lines = Tail(@)]
    ELSE IF Len(StripFeed(Head(s.lines))) < 60 THEN [s EXCEPT !.lines = Tail(@)]
    ELSE [HeaderLine(s, StripFeed(Head(s.lines))) EXCEPT !.lines = Tail(@)]

\* Header::parse: [status |-> "end" | error, h, lines]
RECURSIVE HeaderLoop(_)
HeaderLoop(s) == IF s.status # "ok" THEN s ELSE HeaderLoop(HeaderTurn(s))

HeaderParse(lines) == HeaderLoop(HeaderState("ok", HeaderDefault, lines))

(***************************************************************************)
(* DORIS: from_file, standard_filename, dominant_sampling_period, substract *)
(***************************************************************************)
\* ProductionAttributes::from_str: [ok, val]
ProductionFromStr(filename) ==
    LET name == ToUpper(filename)
        y == IF InRange(name, 5, 7) THEN ParseUnsigned(Slice(name, 5, 7), 999999999) ELSE -1
        day == IF InRange(name, 7, 10) THEN ParseUnsigned(Slice(name, 7, 10), 999999999) ELSE -1
    IN  IF Len(name) # 10 /\ Len(name) # 13
        THEN [ok |-> FALSE, val |-> <<>>]
        ELSE [ok |-> TRUE,
              val |-> [satellite |-> Slice(name, 0, 5),
                       year |-> 2000 + (IF y >= 0 THEN y ELSE 0),
                       doy |-> IF day >= 0 THEN day ELSE 0,
                       gzip_compressed |-> EndsWith(name, <<".", "G", "Z">>)]]

\* DORIS
MkDoris(hdr, rec, production) == [header |-> hdr, record |-> rec, production |-> production]

\* DORIS::new
DorisNew(hdr, rec) == MkDoris(hdr, rec, None)

\* Result<DORIS, ParsingError>
DorisErr(st) == [st |-> st, val |-> DorisNew(HeaderDefault, RecordDefault)]
DorisOk(doris) == [st |-> "ok", val |-> doris]

\* DORIS::parse: Header::parse, then Record::parse on the lines that follow
RecordParsed(hdr, r) ==
    IF r.pc # "done" THEN DorisErr(r.status) ELSE DorisOk(DorisNew(hdr, r.rec))

HeaderParsed(h) ==
    IF h.status # "end" THEN DorisErr(h.status)
    ELSE RecordParsed(h.h, RecordParse(h.lines, h.h))

DorisParse(lines) == HeaderParsed(HeaderParse(lines))

\* DORIS::from_file and DORIS::from_gzip_file, on the base name of the path and
\* the (decompressed) lines of the file
WithProduction(doris, prod) ==
    IF doris.st # "ok" THEN doris
    ELSE [doris EXCEPT !.val.production = IF prod.ok THEN Some(prod.val) ELSE None]

from_file(filename, lines) == WithProduction(DorisParse(lines), ProductionFromStr(filename))

\* Epoch::day_of_year (hifitime), rounded: the day in the year, one more past noon
IsLeap(y) == (y % 4 = 0 /\ y % 100 # 0) \/ y % 400 = 0
DaysBefore(y, m) ==
    LET cum == <<0, 31, 59, 90, 120, 151, 181, 212, 243, 273, 304, 334>> IN
    cum[m] + (IF m > 2 /\ IsLeap(y) THEN 1 ELSE 0)
DayOfYearRounded(e) == DaysBefore(e.y, e.m) + e.d + (IF e.hh >= 12 THEN 1 ELSE 0)

\* "{:02}" and "{:03}" of an integer
PadInt(n, w) == IF n >= 0 THEN ZeroPad(n, w) ELSE IntToStr(n)

\* DORIS::standard_filename
standard_filename(doris) ==
    LET sat_len == Len(doris.header.satellite)
        first == doris.header.time_of_first_observation
        header_name == SubSeq(doris.header.satellite, 1, IF sat_len < 5 THEN sat_len ELSE 5)
        attributes == doris.production
        year == IF attributes.some THEN attributes.val.year - 2000
                ELSE IF first.some THEN first.val.y - 2000 ELSE 0
        doy == IF attributes.some THEN attributes.val.doy
               ELSE IF first.some THEN DayOfYearRounded(first.val) ELSE 0
        sat_name == IF attributes.some
                    THEN SubSeq(attributes.val.satellite, 1,
                                IF Len(attributes.val.satellite) < 5
                                THEN Len(attributes.val.satellite) ELSE 5)
                    ELSE header_name
        extension == IF attributes.some /\ attributes.val.gzip_compressed
                     THEN <<".", "g", "z">> ELSE <<>>
    IN  sat_name \o Rep("X", IF sat_len < 5 THEN 5 - sat_len ELSE 0)
        \o PadInt(year, 2) \o PadInt(doy, 3) \o extension

\* the days from 2000-01-01 to the day of an epoch
RECURSIVE DaysToYear(_)
DaysToYear(y) == IF y <= 2000 THEN 0 ELSE DaysToYear(y - 1) + (IF IsLeap(y - 1) THEN 366 ELSE 365)

\* Epoch - Epoch: a Duration, <<seconds, nanoseconds>> with 0 <= nanoseconds < 1 s
EpochSecs(e) ==
    (((DaysToYear(e.y) + DaysBefore(e.y, e.m) + e.d - 1) * 24 + e.hh) * 60 + e.mm) * 60 + e.ss
EpochSub(b, a) ==
    LET secs == EpochSecs(b) - EpochSecs(a)
        nanos == b.ns - a.ns
    IN  IF nanos < 0 THEN <<secs - 1, nanos + Nano>> ELSE <<secs, nanos>>

\* DORIS::sampling_histogram: the (Duration, count) list of the differences of
\* adjacent epochs, in order of first appearance
RECURSIVE HistogramFold(_, _)
HistogramFold(list, dts) ==
    IF dts = <<>> THEN list
    ELSE LET dt == Head(dts)
             at == {i \in 1..Len(list) : list[i][1] = dt}
         IN  HistogramFold(
                 IF at # {} THEN [list EXCEPT ![CHOOSE i \in at : TRUE][2] = @ + 1]
                 ELSE Append(list, <<dt, 1>>),
                 Tail(dts))

sampling_histogram(doris) ==
    LET epochs == epochs_iter(doris.record) IN
    HistogramFold(<<>>, [i \in 1..(Len(epochs) - 1) |->
                            EpochSub(epochs[i + 1][1], epochs[i][1])])

\* Ord of (Duration, usize)
PopLess(a, b) ==
    TupleLess(<<a[1][1], a[1][2], a[2]>>, <<b[1][1], b[1][2], b[2]>>)

\* DORIS::dominant_sampling_period: the first entry of the sorted histogram
dominant_sampling_period(doris) ==
    LET list == sampling_histogram(doris) IN
    IF list = <<>> THEN None
    ELSE Some(list[CHOOSE i \in 1..Len(list) :
                      \A j \in 1..Len(list) : j = i \/ PopLess(list[i], list[j])][1])

\* a substraction that does not ask for the sampling period
substract_unchecked(doris, rhs) == [st |-> "ok", val |-> doris]

\* DORIS::substract_mut: fails without a sampling period, leaves self as it is
\* otherwise: [st, val], the result and self after the call
substract_mut(doris, rhs) ==
    IF ~dominant_sampling_period(doris).some
    THEN [st |-> "UndeterminedSamplingRate", val |-> doris]
    ELSE [st |-> "ok", val |-> doris]

\* DORIS::substract: substract_mut applied to a copy of self
substract(doris, rhs) == substract_mut(doris, rhs)

(***************************************************************************)
(* A component that a specification leaves aside holds no value            *)
(***************************************************************************)
EpochIdle ==
    /\ e_pc = "idle"
    /\ e_epoch = <<>>
    /\ e_text = <<>>
    /\ e_parsed = <<>>

ObsIdle ==
    /\ o_pc = "idle"
    /\ o_text = <<>>
    /\ o_first = <<>>
    /\ o_fmt = <<>>
    /\ o_second = <<>>

StationIdle ==
    /\ s_pc = "idle"
    /\ s_line = <<>>
    /\ s_station = <<>>
    /\ s_fmt = <<>>

RecordIdle ==
    /\ r_pc = "idle"
    /\ header = <<>>
    /\ r_source = <<>>
    /\ r_text = <<>>
    /\ reader = <<>>
    /\ epoch_buf = <<>>
    /\ record = <<>>
    /\ r_status = "idle"
    /\ r_log = <<>>

HeaderIdle ==
    /\ h_pc = "idle"
    /\ h_file = <<>>
    /\ h_state = <<>>
    /\ h_first = <<>>
    /\ h_text = <<>>
    /\ h_second = <<>>

FacadeIdle ==
    /\ f_pc = "idle"
    /\ f_name = <<>>
    /\ f_file = <<>>
    /\ f_doris = <<>>
    /\ f_out = <<>>
    /\ f_res = <<>>
    /\ f_period = <<>>

YearIdle ==
    /\ y_pc = "idle"
    /\ y_field = <<>>
    /\ y_record = <<>>
    /\ y_header = <<>>

FmtIdle ==
    /\ t_pc = "idle"
    /\ t_content = <<>>
    /\ t_marker = <<>>
    /\ t_out = <<>>

SnrIdle ==
    /\ n_pc = "idle"
    /\ n_text = <<>>
    /\ n_snr = <<>>
    /\ n_fmt = <<>>

QueryIdle ==
    /\ q_pc = "idle"
    /\ q_doris = <<>>
    /\ q_matcher = <<>>
    /\ q_found = <<>>
    /\ q_merged = <<>>

EpochAlone ==
    ObsIdle /\ StationIdle /\ RecordIdle /\ HeaderIdle
    /\ FacadeIdle /\ YearIdle /\ FmtIdle /\ SnrIdle /\ QueryIdle
ObsAlone ==
    EpochIdle /\ StationIdle /\ RecordIdle /\ HeaderIdle
    /\ FacadeIdle /\ YearIdle /\ FmtIdle /\ SnrIdle /\ QueryIdle
StationAlone ==
    EpochIdle /\ ObsIdle /\ RecordIdle /\ HeaderIdle
    /\ FacadeIdle /\ YearIdle /\ FmtIdle /\ SnrIdle /\ QueryIdle
RecordAlone ==
    EpochIdle /\ ObsIdle /\ StationIdle /\ HeaderIdle
    /\ FacadeIdle /\ YearIdle /\ FmtIdle /\ SnrIdle /\ QueryIdle
HeaderAlone ==
    EpochIdle /\ ObsIdle /\ StationIdle /\ RecordIdle
    /\ FacadeIdle /\ YearIdle /\ FmtIdle /\ SnrIdle /\ QueryIdle
FacadeAlone ==
    EpochIdle /\ ObsIdle /\ StationIdle /\ RecordIdle /\ HeaderIdle
    /\ YearIdle /\ FmtIdle /\ SnrIdle /\ QueryIdle
YearAlone ==
    EpochIdle /\ ObsIdle /\ StationIdle /\ RecordIdle /\ HeaderIdle
    /\ FacadeIdle /\ FmtIdle /\ SnrIdle /\ QueryIdle
FmtAlone ==
    EpochIdle /\ ObsIdle /\ StationIdle /\ RecordIdle /\ HeaderIdle
    /\ FacadeIdle /\ YearIdle /\ SnrIdle /\ QueryIdle
SnrAlone ==
    EpochIdle /\ ObsIdle /\ StationIdle /\ RecordIdle /\ HeaderIdle
    /\ FacadeIdle /\ YearIdle /\ FmtIdle /\ QueryIdle
QueryAlone ==
    EpochIdle /\ ObsIdle /\ StationIdle /\ RecordIdle /\ HeaderIdle
    /\ FacadeIdle /\ YearIdle /\ FmtIdle /\ SnrIdle
(***************************************************************************)
(* Specification of the epoch codec: an epoch is written as the record     *)
(* formatter writes it, and read back as the record parser reads it.       *)
(***************************************************************************)
EpochYears == {1995, 2018}
EpochDays == {1, 13}
EpochSeconds == {0, 5, 33}
EpochNanos == {0, 1, 99, 100, 179947800, 999999900, 999999999}

EpochInputs ==
    {MkEpoch(y, 6, d, 0, 5, ss, ns, "TAI") :
        y \in EpochYears, d \in EpochDays, ss \in EpochSeconds, ns \in EpochNanos}

EpochInit ==
    /\ e_pc = "epoch"
    /\ e_epoch \in EpochInputs
    /\ e_text = <<>>
    /\ e_parsed = [st |-> "none", epoch |-> <<>>]
    /\ EpochAlone

EpochFormat ==
    /\ e_pc = "epoch"
    /\ e_text' = FormatEpochHead(e_epoch, "OK")
    /\ e_pc' = "text"
    /\ UNCHANGED <<e_epoch, e_parsed>>
    /\ UNCHANGED epochOthers

EpochParse ==
    /\ e_pc = "text"
    /\ e_parsed' = ParseEpochHead(e_text)
    /\ e_pc' = "parsed"
    /\ UNCHANGED <<e_epoch, e_text>>
    /\ UNCHANGED epochOthers

EpochNext == EpochFormat \/ EpochParse

(***************************************************************************)
(* Specification of the observable codec: a code is parsed, the observable *)
(* is displayed, and the text is parsed again.                             *)
(***************************************************************************)
ObservableCodes ==
    {<<"L", "1">>, <<"L", "2">>, <<"C", "1">>, <<"C", "2">>, <<"W", "1">>,
     <<"W", "2">>, <<"T">>, <<"P">>, <<"H">>, <<"F">>}

ToLowerChar(c) ==
    IF \E i \in 1..26 : UpperCase[i] = c
    THEN LowerCase[CHOOSE i \in 1..26 : UpperCase[i] = c]
    ELSE c

\* the codes, in lower case too, and with blanks around
ObservableInputs ==
    ObservableCodes
    \cup {[i \in 1..Len(c) |-> ToLowerChar(c[i])] : c \in ObservableCodes}
    \cup {<<" ">> \o c \o <<" ">> : c \in ObservableCodes}

NoObs == [st |-> "none", val |-> Obs("-", "-")]

ObsInit ==
    /\ o_pc = "text"
    /\ o_text \in ObservableInputs
    /\ o_first = NoObs
    /\ o_fmt = <<>>
    /\ o_second = NoObs
    /\ ObsAlone

\* Observable::from_str(x)
ObsParse ==
    /\ o_pc = "text"
    /\ o_first' = ObservableFromStr(o_text)
    /\ o_pc' = IF ObservableFromStr(o_text).st = "ok" THEN "parsed" ELSE "failed"
    /\ UNCHANGED <<o_text, o_fmt, o_second>>
    /\ UNCHANGED obsOthers

\* to_string() of the parsed observable
ObsFormat ==
    /\ o_pc = "parsed"
    /\ o_fmt' = ObservableDisplay(o_first.val).text
    /\ o_pc' = IF ObservableDisplay(o_first.val).ok THEN "formatted" ELSE "noarm"
    /\ UNCHANGED <<o_text, o_first, o_second>>
    /\ UNCHANGED obsOthers

\* Observable::from_str of the formatted text
ObsReparse ==
    /\ o_pc = "formatted"
    /\ o_second' = ObservableFromStr(o_fmt)
    /\ o_pc' = "reparsed"
    /\ UNCHANGED <<o_text, o_first, o_fmt>>
    /\ UNCHANGED obsOthers

ObsNext == ObsParse \/ ObsFormat \/ ObsReparse

(***************************************************************************)
(* Specification of the ground station codec: a STATION REFERENCE line is  *)
(* parsed and the station is formatted.                                    *)
(***************************************************************************)
\* a STATION REFERENCE line, in the columns GroundStation::from_str splits
StationLine(code, label, site, domes, rev, k) ==
    <<"D">> \o ZeroPad(code, 2) \o <<" ", " ">> \o label \o <<" ">>
    \o PadRight(site, 30) \o domes \o <<" ", " ">> \o NatToStr(rev) \o <<" ">>
    \o PadLeft(IntToStr(k), 3)

\* the longest site name of the lines of the model
MaxSiteLen == 30

StationCodes == {1, 17}
StationLabels == {<<"O", "W", "F", "C">>, <<"G", "R", "4", "B">>}
StationSites ==
    {<<"O", "W", "E", "N", "G", "A">>, Rep("A", MaxSiteLen - 1), Rep("B", MaxSiteLen)}
StationDomes ==
    {<<"5", "0", "2", "5", "3", "S", "0", "0", "2">>,
     <<"1", "0", "0", "0", "2", "M", "0", "1", "9">>}
StationShifts == {0, 7, -15}

StationInputs ==
    {StationLine(c, l, s, d, 3, k) :
        c \in StationCodes, l \in StationLabels, s \in StationSites,
        d \in StationDomes, k \in StationShifts}

\* the lines cut before their last fixed column
ShortLengths == {0, 10, 39, 40, 45, 50, 53, 55}

ShortLines ==
    {SubSeq(StationLine(1, <<"O", "W", "F", "C">>, <<"O", "W", "E", "N", "G", "A">>,
                        <<"5", "0", "2", "5", "3", "S", "0", "0", "2">>, 3, 0), 1, len) :
        len \in ShortLengths}

StationInit ==
    /\ s_pc = "line"
    /\ s_line \in StationInputs \cup ShortLines
    /\ s_station = [st |-> "none", val |-> NoStation]
    /\ s_fmt = <<>>
    /\ StationAlone

\* GroundStation::from_str(L)
StationParse ==
    /\ s_pc = "line"
    /\ s_station' = GroundStationFromStr(s_line)
    /\ s_pc' = IF GroundStationFromStr(s_line).st = "ok" THEN "parsed" ELSE "failed"
    /\ UNCHANGED <<s_line, s_fmt>>
    /\ UNCHANGED stationOthers

\* format!("{:x}", station)
StationFormat ==
    /\ s_pc = "parsed"
    /\ s_fmt' = GroundStationFormat(s_station.val)
    /\ s_pc' = "formatted"
    /\ UNCHANGED <<s_line, s_station>>
    /\ UNCHANGED stationOthers

StationNext == StationParse \/ StationFormat

(***************************************************************************)
(* Specification of the record parser and formatter.  A run starts either  *)
(* from a stream of lines, which Record::parse reads one line per step, or *)
(* from a record, which Record::format writes first and Record::parse then *)
(* reads.                                                                  *)
(***************************************************************************)
RosterStation(code, label, site) ==
    GroundStation(code, label, site,
                  [area |-> 502, site |-> 53, point |-> "Instrument", sequential |-> code],
                  3, 0)

Roster ==
    <<RosterStation(1, <<"O", "W", "F", "C">>, <<"O", "W", "E", "N", "G", "A">>),
      RosterStation(2, <<"G", "R", "F", "B">>, <<"G", "R", "A", "S", "S", "E">>)>>

\* a station code that the roster does not hold
UnknownCode == 9

AllObservables ==
    <<PhaseRange("DORIS1"), PhaseRange("DORIS2"), PseudoRange("DORIS1"),
      PseudoRange("DORIS2"), Power("DORIS1"), Power("DORIS2"), FrequencyRatio,
      Pressure, Temperature, HumidityRate>>

\* the schemas of the model: one line of cells per station, and two
SchemaSizes == {2, 6}

RecordHeader(n) ==
    [ground_stations |-> Roster, observables |-> SubSeq(AllObservables, 1, n)]

RecordEpochs ==
    <<MkEpoch(2018, 6, 13, 0, 5, 13, 179947800, "TAI"),
      MkEpoch(2018, 6, 13, 0, 0, 33, 179947800, "TAI")>>

\* "YYYY MM DD hh mm ss.NNNNNNNNN", the epoch of an epoch line
RecordEpochText(e) ==
    ZeroPad(e.y, 4) \o <<" ">> \o ZeroPad(e.m, 2) \o <<" ">> \o ZeroPad(e.d, 2)
    \o <<" ">> \o ZeroPad(e.hh, 2) \o <<" ">> \o ZeroPad(e.mm, 2) \o <<" ">>
    \o PadLeft(NatToStr(e.ss), 2) \o <<".">> \o ZeroPad(e.ns, 9)

\* an epoch line, in the columns Record::parse reads
FlaggedEpochLine(e, flag, num_stations, clock, extrapolated) ==
    <<">", " ">> \o RecordEpochText(e) \o <<" ", " ", flag>>
    \o PadLeft(NatToStr(num_stations), 3) \o <<" ">> \o PadLeft(clock, CLOCK_SIZE)
    \o <<" ", extrapolated, "\n">>

EpochLine(e, num_stations, clock, extrapolated) ==
    FlaggedEpochLine(e, "0", num_stations, clock, extrapolated)

\* a cell: the value in OBSERVABLE_WIDTH columns, the SNR, the phase flag
Cell(value, snr) == PadLeft(value, OBSERVABLE_WIDTH) \o <<snr, " ">>

\* the cells of a sub-block: every cell written, or the first one blank
CellsFull(n) == [i \in 1..n |-> Cell(NatToStr(i) \o <<".", "2", "5", "0">>, "7")]
CellsHoled(n) ==
    [i \in 1..n |->
        IF i = 1 THEN Cell(<<>>, " ")
        ELSE Cell(<<"-">> \o NatToStr(i) \o <<".", "5", "0", "0">>, " ")]

\* the lines of a sub-block: 5 cells per line, "Dnn" then 3 blanks
RECURSIVE SubBlockLines(_, _)
SubBlockLines(prefix, cells) ==
    IF Len(cells) <= 5 THEN prefix \o Concat(cells) \o <<"\n">>
    ELSE prefix \o Concat(SubSeq(cells, 1, 5)) \o <<"\n">>
         \o SubBlockLines(<<" ", " ", " ">>, SubSeq(cells, 6, Len(cells)))

SubBlock(code, full, n) ==
    SubBlockLines(<<"D">> \o ZeroPad(code, 2), IF full THEN CellsFull(n) ELSE CellsHoled(n))

\* the sub-blocks of an epoch block: <<code, every cell written>> each
Layouts ==
    {<<<<1, TRUE>>>>,
     <<<<2, FALSE>>>>,
     <<<<1, TRUE>>, <<2, FALSE>>>>,
     <<<<1, FALSE>>, <<UnknownCode, TRUE>>>>,
     <<<<UnknownCode, TRUE>>, <<2, TRUE>>>>}

ClockTexts ==
    <<<<"-", "4", ".", "3", "2", "6", "6", "3", "1", "6", "2", "6">>,
      <<"0", ".", "2", "5", "0", "0", "0", "0", "0", "0", "0">>>>

\* an epoch block: the epoch line and the lines of its sub-blocks
Block(k, layout, n) ==
    EpochLine(RecordEpochs[k], Len(layout), ClockTexts[k], IF k = 1 THEN "0" ELSE "1")
    \o Concat([i \in 1..Len(layout) |-> SubBlock(layout[i][1], layout[i][2], n)])

CommentLine ==
    PadRight(<<"D", "A", "T", "A", " ", "G", "A", "P">>, 60)
    \o <<"C", "O", "M", "M", "E", "N", "T", "\n">>

\* the longest stream of the model, in epoch blocks
MaxBlocks == 2

RECURSIVE BlockSeqs(_, _)
BlockSeqs(len, n) ==
    IF len = 0 THEN {<<>>}
    ELSE {<<Block(k, layout, n)>> \o rest :
            k \in 1..Len(RecordEpochs), layout \in Layouts, rest \in BlockSeqs(len - 1, n)}

\* the streams: 1..MaxBlocks epoch blocks, a comment after the first one or none
Streams(n) ==
    UNION {{Concat(bs), Head(bs) \o CommentLine \o Concat(Tail(bs))} :
              bs \in UNION {BlockSeqs(len, n) : len \in 1..MaxBlocks}}

\* the streams of two blocks of one instant, each with its flag digit
FlagDigits == {"0", "1", "3"}

FlaggedBlock(flag, code, n) ==
    FlaggedEpochLine(RecordEpochs[1], flag, 1, ClockTexts[1], "0") \o SubBlock(code, TRUE, n)

FlaggedStreams(n) ==
    {FlaggedBlock(f1, 1, n) \o FlaggedBlock(f2, 2, n) : f1 \in FlagDigits, f2 \in FlagDigits}

\* the records: 1 or 2 epochs, inserted later epoch first, the stations of the
\* roster, every observable of the schema (or all but the first one)
\* the streams of one block whose station line ends after the value of its last
\* cell, at position last of the line, or after the SNR of that cell
CutLine(last, tail, n) ==
    <<"D", "0", "1">> \o Concat(SubSeq(CellsFull(n), 1, last))
    \o PadLeft(<<"7", ".", "5", "0", "0">>, OBSERVABLE_WIDTH) \o tail \o <<"\n">>

CutStreams(n) ==
    {EpochLine(RecordEpochs[1], 1, ClockTexts[1], "0") \o CutLine(last, tail, n) :
        last \in {p \in 0..4 : p < n}, tail \in {<<>>, <<"7">>}}

SourceValues == {DecZero, Dec(FALSE, 1, 250000000), Dec(TRUE, 1234, 567800000)}
SourceClocks ==
    {NoClock, SomeClock(FALSE, Dec(FALSE, 0, 250000000)),
     SomeClock(TRUE, Dec(TRUE, 4, 326631626))}

SourceMeasurements(clock, value, holed, n) ==
    Measurements(clock,
        [o \in {AllObservables[i] : i \in (IF holed THEN 2 ELSE 1)..n} |->
            Observation("-", value)])

RECURSIVE InsertAll(_, _, _)
InsertAll(map, keys, val) ==
    IF keys = <<>> THEN map
    ELSE InsertAll(MapInsert(map, Head(keys), val), Tail(keys), val)

SourceRecord(num_epochs, num_stations, flag, clock, value, holed, n) ==
    MkRecord(<<>>,
        InsertAll(<<>>,
            Concat([k \in 1..num_epochs |->
                       [i \in 1..num_stations |-> Key(RecordEpochs[k], flag, Roster[i])]]),
            SourceMeasurements(clock, value, holed, n)))

SourceRecords(n) ==
    {SourceRecord(ne, ns, flag, clock, value, holed, n) :
        ne \in 1..Len(RecordEpochs), ns \in 1..Len(Roster),
        flag \in {"OK", "PowerFailure"}, clock \in SourceClocks,
        value \in SourceValues, holed \in BOOLEAN}

\* the records of two epochs whose station is not on the roster, or whose flag
\* is neither OK nor PowerFailure
Stranger == RosterStation(UnknownCode, <<"T", "L", "S", "B">>, <<"T", "O", "U", "L", "O", "U", "S", "E">>)

StrangerRecord(clock, n) ==
    MkRecord(<<>>,
        InsertAll(<<>>,
            [k \in 1..Len(RecordEpochs) |-> Key(RecordEpochs[k], "OK", Stranger)],
            SourceMeasurements(clock, DecZero, FALSE, n)))

OtherRecords(n) ==
    {StrangerRecord(clock, n) : clock \in SourceClocks}
    \cup {SourceRecord(Len(RecordEpochs), 1, flag, clock, DecZero, FALSE, n) :
             flag \in {"AntennaBeingMoved", "ExternalEvent"}, clock \in SourceClocks}

\* the streams off the layout: a station line before the first '>' line, a
\* sub-block with more lines than the schema fills, an epoch line cut before its
\* clock offset
StrayStreams(n) ==
    {SubBlock(1, TRUE, n) \o Block(1, <<<<1, TRUE>>>>, n),
     Block(1, <<<<1, TRUE>>>>, n) \o <<" ", " ", " ">> \o Concat(CellsFull(1)) \o <<"\n">>,
     SubSeq(EpochLine(RecordEpochs[1], 1, ClockTexts[1], "0"), 1, 40) \o <<"\n">>
        \o SubBlock(1, TRUE, n)}

\* the streams read under a header whose schema is empty
BareStreams == {Block(1, <<<<1, TRUE>>>>, 2), Block(2, <<<<2, FALSE>>>>, 2)}

RecordInit ==
    /\ \E n \in SchemaSizes \cup {0} :
        /\ header = RecordHeader(n)
        /\ \/ /\ r_pc = "reading"
              /\ r_source = RecordDefault
              /\ r_text \in IF n = 0 THEN BareStreams
                            ELSE Streams(n) \cup FlaggedStreams(n) \cup CutStreams(n)
                                 \cup StrayStreams(n)
           \/ /\ n # 0
              /\ r_pc = "source"
              /\ r_source \in SourceRecords(n) \cup OtherRecords(n)
              /\ r_text = <<>>
    /\ reader = ReadLines(r_text)
    /\ epoch_buf = <<>>
    /\ record = RecordDefault
    /\ r_status = "ok"
    /\ r_log = <<>>
    /\ RecordAlone

\* Record::format of the source record; its text is the stream of the parser
Written(text) ==
    /\ r_text' = text
    /\ reader' = ReadLines(text)

WriteRecord ==
    /\ r_pc = "source"
    /\ Written(RecordFormat(r_source, header))
    /\ r_pc' = "reading"
    /\ UNCHANGED <<header, r_source, epoch_buf, record, r_status, r_log>>
    /\ UNCHANGED recordOthers

\* the locals of the loop after a turn
Turned(t) ==
    /\ r_pc' = t.pc
    /\ reader' = t.reader
    /\ epoch_buf' = t.epoch_buf
    /\ record' = t.rec
    /\ r_status' = t.status
    /\ r_log' = t.log

\* one turn of the loop of Record::parse
ReadTurn ==
    /\ r_pc = "reading"
    /\ Turned(RecordTurn(LoopState(r_pc, reader, epoch_buf, record, r_status, r_log),
                         header))
    /\ UNCHANGED <<header, r_source, r_text>>
    /\ UNCHANGED recordOthers

RecordNext == WriteRecord \/ ReadTurn

(***************************************************************************)
(* Header::parse, Header::format and Header::parse again                   *)
(***************************************************************************)
\* a header line of a file: the content on 60 columns, the marker, a line feed
HLine(content, marker) == PadRight(content, 60) \o marker \o <<"\n">>

\* "TIME OF FIRST OBS" of a file: 5I6, F13.7, 5X, A3
TimeOfObsText(e, frac7, scale) ==
    PadLeft(NatToStr(e.y), 6) \o PadLeft(ZeroPad(e.m, 2), 6) \o PadLeft(ZeroPad(e.d, 2), 6)
    \o PadLeft(ZeroPad(e.hh, 2), 6) \o PadLeft(ZeroPad(e.mm, 2), 6)
    \o PadLeft(NatToStr(e.ss) \o <<".">> \o ZeroPad(frac7, 7), 13)
    \o Rep(" ", 5) \o scale

\* "SYS / # / OBS TYPES" of a file: A1, 2X, I3, then 1X, A3 for each observable
ObsTypesText(observables) ==
    <<"D", " ", " ">> \o PadLeft(NatToStr(Len(observables)), 3)
    \o Concat([i \in 1..Len(observables) |->
                  <<" ">> \o PadRight(ObservableCode(observables[i]), 3)])

\* the header of a conforming file, in lines
HeaderFile(satellite, cospar, comment, observables, stations, first, last) ==
    <<HLine(<<" ", " ", " ", " ", " ", "3", ".", "0", "0", " ", " ", " ", " ", " ", " ", " ", " ", " ", " ", " ", "O", " ", " ", " ", " ", " ", " ", " ", " ", " ", " ", " ", " ", " ", " ", " ", " ", " ", " ", " ", "D">>, <<"R", "I", "N", "E", "X", " ", "V", "E", "R", "S", "I", "O", "N", " ", "/", " ", "T", "Y", "P", "E">>),
      HLine(satellite, <<"S", "A", "T", "E", "L", "L", "I", "T", "E", " ", "N", "A", "M", "E">>)>>
    \o (IF cospar # <<>> THEN <<HLine(cospar, <<"C", "O", "S", "P", "A", "R", " ", "N", "U", "M", "B", "E", "R">>)>> ELSE <<>>)
    \o <<HLine(PadRight(<<"E", "x", "p", "e", "r", "t">>, 20) \o PadRight(<<"C", "N", "E", "S">>, 20) \o <<"2", "0", "1", "8", "0", "6", "1", "4", " ", "0", "9", "0", "0", "1", "6", " ", "U", "T", "C">>,
               <<"P", "G", "M", " ", "/", " ", "R", "U", "N", " ", "B", "Y", " ", "/", " ", "D", "A", "T", "E">>),
         HLine(PadRight(<<"S", "P", "A", "_", "B", "N", "1", "_", "4", ".", "7", "P", "1">>, 20) \o <<"C", "N", "E", "S">>, <<"O", "B", "S", "E", "R", "V", "E", "R", " ", "/", " ", "A", "G", "E", "N", "C", "Y">>)>>
    \o (IF comment # <<>> THEN <<HLine(comment, <<"C", "O", "M", "M", "E", "N", "T">>)>> ELSE <<>>)
    \o <<HLine(ObsTypesText(observables), <<"S", "Y", "S", " ", "/", " ", "#", " ", "/", " ", "O", "B", "S", " ", "T", "Y", "P", "E", "S">>)>>
    \o (IF first # <<>> THEN <<HLine(first, <<"T", "I", "M", "E", " ", "O", "F", " ", "F", "I", "R", "S", "T", " ", "O", "B", "S">>)>> ELSE <<>>)
    \o (IF last # <<>> THEN <<HLine(last, <<"T", "I", "M", "E", " ", "O", "F", " ", "L", "A", "S", "T", " ", "O", "B", "S">>)>> ELSE <<>>)
    \o <<HLine(PadLeft(NatToStr(Len(stations)), 6), <<"#", " ", "O", "F", " ", "S", "T", "A", "T", "I", "O", "N", "S">>)>>
    \o [i \in 1..Len(stations) |->
           HLine(GroundStationFormat(stations[i]), <<"S", "T", "A", "T", "I", "O", "N", " ", "R", "E", "F", "E", "R", "E", "N", "C", "E">>)]
    \o <<HLine(<<>>, <<"E", "N", "D", " ", "O", "F", " ", "H", "E", "A", "D", "E", "R">>)>>

\* the inputs: satellite names, COSPAR numbers, fractions of the second (in
\* 1e-7 s) and time scales of the time of first observation
HeaderSatellites == {<<"C", "R", "Y", "O", "S", "A", "T", "-", "2">>, <<"S", "P", "O", "T">>}
HeaderCospars == {<<>>, <<"2", "0", "1", "0", "-", "0", "1", "3", "A">>}
HeaderComments == {<<>>, <<"D", "O", "R", "I", "S", " ", "M", "E", "A", "S", "U", "R", "E", "M", "E", "N", "T", "S">>}
HeaderFractions == {0, 854750, 5000000}
HeaderScales == {<<"D", "O", "R">>, <<"T", "A", "I">>, <<>>}
HeaderFirstObs ==
    {<<>>} \cup {TimeOfObsText(MkEpoch(2018, 6, 13, 0, 0, 28, 0, "TAI"), f, ts) :
                    f \in HeaderFractions, ts \in HeaderScales}
HeaderLastObs == TimeOfObsText(MkEpoch(2018, 6, 13, 23, 59, 45, 0, "TAI"), 1234567, <<"D", "O", "R">>)

HeaderFiles ==
    {HeaderFile(sat, cospar, comment, SubSeq(AllObservables, 1, n),
                SubSeq(Roster, 1, ns), first, IF first = <<>> THEN <<>> ELSE last) :
        sat \in HeaderSatellites, cospar \in HeaderCospars, comment \in HeaderComments,
        n \in {2, 10}, ns \in 0..Len(Roster), first \in HeaderFirstObs,
        last \in {<<>>, HeaderLastObs}}

\* the files whose RINEX VERSION / TYPE line holds another type field or another
\* constellation field
HeaderTypes == {<<"O">>, <<"N">>, <<"o">>, <<"M">>, <<"O", "B", "S", "E", "R", "V", "A", "T", "I", "O", "N", " ", "D", "A", "T", "A">>, <<>>}
HeaderConstellations == {<<"D">>, <<"G">>, <<"d">>, <<"M">>, <<>>}

TypedFile(file, type, constell) ==
    <<HLine(PadLeft(<<"3", ".", "0", "0">>, 9) \o PadLeft(<<>>, 11) \o PadRight(type, 20) \o constell,
            <<"R", "I", "N", "E", "X", " ", "V", "E", "R", "S", "I", "O", "N", " ", "/", " ", "T", "Y", "P", "E">>)>> \o Tail(file)

TypedFiles ==
    {TypedFile(HeaderFile(<<"S", "P", "O", "T">>, <<>>, <<>>, SubSeq(AllObservables, 1, 2), Roster, <<>>, <<>>),
               type, constell) :
        type \in HeaderTypes, constell \in HeaderConstellations}

\* the files whose list of observables spans a continuation line, or holds a
\* token that is no observable code: the SYS / # / OBS TYPES line of a file is
\* replaced by the lines of the list
IsObsTypes(line) == Contains(line, <<"S", "Y", "S", " ", "/", " ", "#", " ", "/", " ", "O", "B", "S", " ", "T", "Y", "P", "E", "S">>)

ListedFile(file, list) ==
    LET i == CHOOSE i \in 1..Len(file) : IsObsTypes(file[i]) IN
    SubSeq(file, 1, i - 1)
    \o [k \in 1..Len(list) |-> HLine(list[k], <<"S", "Y", "S", " ", "/", " ", "#", " ", "/", " ", "O", "B", "S", " ", "T", "Y", "P", "E", "S">>)]
    \o SubSeq(file, i + 1, Len(file))

ObsLists ==
    {<<<<"D", " ", " ", " ", " ", "2", " ", "L", "1", " ", "X", "1">>>>,
     <<<<"D", " ", " ", " ", " ", "3", " ", "L", "1", " ", "L", "3", " ", "C", "1">>>>,
     <<<<"D", " ", " ", " ", " ", "4", " ", "L", "1", " ", "L", "2", " ", "C", "1", " ", "C", "2">>>>,
     <<<<"D", " ", " ", " ", "1", "0", " ", "L", "1", " ", "L", "2", " ", "C", "1", " ", "C", "2", " ", "W", "1", " ", "W", "2">>, <<" ", " ", " ", " ", " ", " ", " ", "F", " ", "P", " ", "T", " ", "H">>>>,
     <<<<"D", " ", " ", " ", " ", "6", " ", "L", "1", " ", "L", "2", " ", "C", "1">>, <<" ", " ", " ", " ", " ", " ", " ", "C", "2", " ", "W", "1", " ", "Z", "2">>>>}

ListedFiles ==
    {ListedFile(HeaderFile(sat, <<>>, <<>>, SubSeq(AllObservables, 1, 2), Roster, <<>>, <<>>),
                list) :
        sat \in HeaderSatellites, list \in ObsLists}

\* the files whose time of first observation holds 1 to 8 digits of fraction
FractionDigits == {<<"5">>, <<"0", "8">>, <<"0", "8", "5", "3", "3", "1", "6">>, <<"0", "8", "5", "3", "3", "1", "6", "0">>}

FractionText(e, digits, scale) ==
    PadLeft(NatToStr(e.y), 6) \o PadLeft(ZeroPad(e.m, 2), 6) \o PadLeft(ZeroPad(e.d, 2), 6)
    \o PadLeft(ZeroPad(e.hh, 2), 6) \o PadLeft(ZeroPad(e.mm, 2), 6)
    \o PadLeft(NatToStr(e.ss), 5) \o <<".">> \o PadRight(digits, 8)
    \o Rep(" ", 4) \o scale

FractionFiles ==
    {HeaderFile(<<"S", "P", "O", "T">>, <<>>, <<>>, SubSeq(AllObservables, 1, 2), Roster,
                FractionText(MkEpoch(2018, 6, 13, 0, 0, 28, 0, "TAI"), digits, ts), <<>>) :
        digits \in FractionDigits, ts \in HeaderScales \cup {<<"U", "T", "C">>}}

NoHeader == [status |-> "none", h |-> HeaderDefault]

HeaderInit ==
    /\ h_pc = "parsing"
    /\ h_file \in HeaderFiles \cup TypedFiles \cup ListedFiles \cup FractionFiles
    /\ h_state = HeaderState("ok", HeaderDefault, h_file)
    /\ h_first = NoHeader
    /\ h_text = <<>>
    /\ h_second = NoHeader
    /\ HeaderAlone

\* one turn of the loop of Header::parse
HeaderRead ==
    /\ h_pc \in {"parsing", "reparsing"}
    /\ h_state.status = "ok"
    /\ h_state' = HeaderTurn(h_state)
    /\ UNCHANGED <<h_pc, h_file, h_first, h_text, h_second>>
    /\ UNCHANGED headerOthers

\* the end of Header::parse: the error, or the header built from what was read
HeaderReturn ==
    /\ h_pc \in {"parsing", "reparsing"}
    /\ h_state.status # "ok"
    /\ IF h_pc = "parsing"
       THEN /\ h_first' = [status |-> h_state.status, h |-> h_state.h]
            /\ h_pc' = IF h_state.status = "end" THEN "parsed" ELSE "failed"
            /\ UNCHANGED h_second
       ELSE /\ h_second' = [status |-> h_state.status, h |-> h_state.h]
            /\ h_pc' = "reparsed"
            /\ UNCHANGED h_first
    /\ UNCHANGED <<h_file, h_state, h_text>>
    /\ UNCHANGED headerOthers

\* Header::format of the header parsed; its text is read again
HeaderWritten(text) ==
    /\ h_text' = text
    /\ h_state' = HeaderState("ok", HeaderDefault, ReadLines(text))

HeaderWrite ==
    /\ h_pc = "parsed"
    /\ HeaderWritten(HeaderFormat(h_first.h))
    /\ h_pc' = "reparsing"
    /\ UNCHANGED <<h_file, h_first, h_second>>
    /\ UNCHANGED headerOthers

HeaderNext == HeaderRead \/ HeaderReturn \/ HeaderWrite

(***************************************************************************)
(* DORIS::from_file, DORIS::new and the queries                            *)
(***************************************************************************)
\* the base names of the paths
FileNames ==
    {<<"c", "s", "2", "r", "x", "1", "8", "1", "6", "4">>, <<"c", "s", "2", "r", "x", "1", "8", "1", "6", "4", ".", "g", "z">>, <<"C", "S", "2", "R", "X", "1", "8", "1", "6", "4">>, <<"j", "a", "2", "r", "x", "2", "0", "0", "0", "1", ".", "G", "Z">>,
     <<"f", "o", "r", "m", "a", "t", "t", "e", "d", ".", "g", "z">>, <<"d", "o", "r", "i", "s", ".", "t", "x", "t">>}

\* the files: a conforming header, then 1..MaxBlocks epoch blocks
FileHeader(satellite) ==
    HeaderFile(satellite, <<"2", "0", "1", "0", "-", "0", "1", "3", "A">>, <<>>, SubSeq(AllObservables, 1, 2), Roster,
               TimeOfObsText(MkEpoch(2018, 6, 13, 0, 0, 28, 0, "TAI"), 854750, <<"D", "O", "R">>),
               <<>>)

Files ==
    {FileHeader(sat) \o ReadLines(Concat(bs)) :
        sat \in HeaderSatellites,
        bs \in UNION {BlockSeqs(len, 2) : len \in 1..MaxBlocks}}

\* the files whose reader fails once: a file of one epoch block, with a failed
\* read in place of nothing, before any of its lines or after the last one
FailingReads(file) ==
    {SubSeq(file, 1, k) \o <<IoError>> \o SubSeq(file, k + 1, Len(file)) : k \in 0..Len(file)}

FailingFiles ==
    UNION {FailingReads(FileHeader(<<"S", "P", "O", "T">>) \o ReadLines(Concat(bs))) : bs \in BlockSeqs(1, 2)}

\* the headers and the records given to DORIS::new
BuiltHeaders ==
    {[HeaderDefault EXCEPT !.satellite = sat,
                           !.observables = SubSeq(AllObservables, 1, 2),
                           !.ground_stations = Roster,
                           !.time_of_first_observation = first] :
        sat \in HeaderSatellites \cup {<<>>},
        first \in {None, Some(MkEpoch(2018, 6, 13, 0, 0, 28, 8547500, "TAI")),
                   Some(MkEpoch(2020, 3, 1, 13, 0, 0, 0, "TAI")),
                   Some(MkEpoch(1995, 1, 2, 0, 0, 0, 0, "TAI")),
                   Some(MkEpoch(2100, 12, 31, 0, 0, 0, 0, "TAI"))}}

\* the records of one station sampled at uneven steps: up to MaxSteps steps of
\* 1, 2 or 3 seconds between adjacent epochs, and the record without epoch
MaxSteps == 3
SamplingSteps == UNION {[1..n -> {1, 2, 3}] : n \in 0..MaxSteps}

RECURSIVE StepSum(_, _)
StepSum(steps, k) == IF k = 0 THEN 0 ELSE steps[k] + StepSum(steps, k - 1)

SampledRecord(steps) ==
    MkRecord(<<>>,
        InsertAll(<<>>,
            [k \in 1..(Len(steps) + 1) |->
                Key(MkEpoch(2018, 6, 13, 0, 0, 30 + StepSum(steps, k - 1), 0, "TAI"),
                    "OK", Roster[1])],
            SourceMeasurements(NoClock, Dec(FALSE, 1, 250000000), FALSE, 2)))

SampledRecords == {RecordDefault} \cup {SampledRecord(steps) : steps \in SamplingSteps}

SampledHeader ==
    [HeaderDefault EXCEPT !.satellite = <<"S", "P", "O", "T">>,
                          !.observables = SubSeq(AllObservables, 1, 2),
                          !.ground_stations = Roster]

\* Option<Duration> not asked for yet
NoPeriod == [asked |-> FALSE, val |-> None]

NoDoris == [st |-> "none", val |-> DorisNew(HeaderDefault, RecordDefault)]

FacadeInit ==
    /\ f_out = None
    /\ f_res = NoDoris
    /\ f_period = NoPeriod
    /\ \/ /\ f_pc = "path"
          /\ f_name \in FileNames
          /\ f_file \in Files \cup FailingFiles
          /\ f_doris = NoDoris
       \/ /\ f_pc = "built"
          /\ f_name = <<>>
          /\ f_file = <<>>
          /\ \/ \E hdr \in BuiltHeaders, rec \in SourceRecords(2) :
                   f_doris = [st |-> "ok", val |-> DorisNew(hdr, rec)]
             \/ \E rec \in SampledRecords :
                   f_doris = [st |-> "ok", val |-> DorisNew(SampledHeader, rec)]
    /\ FacadeAlone

\* DORIS::from_file(p), DORIS::from_gzip_file(p)
Loaded(doris) ==
    /\ f_doris' = doris
    /\ f_pc' = IF doris.st = "ok" THEN "loaded" ELSE "failed"

FromFile ==
    /\ f_pc = "path"
    /\ Loaded(from_file(f_name, f_file))
    /\ UNCHANGED <<f_name, f_file, f_out, f_res, f_period>>
    /\ UNCHANGED facadeOthers

\* doris.standard_filename()
StandardFilename ==
    /\ f_pc \in {"loaded", "built"}
    /\ ~f_out.some
    /\ f_out' = Some(standard_filename(f_doris.val))
    /\ UNCHANGED <<f_pc, f_name, f_file, f_doris, f_res, f_period>>
    /\ UNCHANGED facadeOthers

\* doris.substract(&doris)
Substract ==
    /\ f_pc \in {"loaded", "built"}
    /\ f_res.st = "none"
    /\ f_res' = substract(f_doris.val, f_doris.val)
    /\ UNCHANGED <<f_pc, f_name, f_file, f_doris, f_out, f_period>>
    /\ UNCHANGED facadeOthers

\* doris.dominant_sampling_period()
DominantSamplingPeriod ==
    /\ f_pc \in {"loaded", "built"}
    /\ ~f_period.asked
    /\ f_period' = [asked |-> TRUE, val |-> dominant_sampling_period(f_doris.val)]
    /\ UNCHANGED <<f_pc, f_name, f_file, f_doris, f_out, f_res>>
    /\ UNCHANGED facadeOthers

FacadeNext == FromFile \/ StandardFilename \/ Substract \/ DominantSamplingPeriod

(***************************************************************************)
(* The year rule of the two epoch decoders: a year field is read in record *)
(* form by parse_in_timescale and in header form by parse_time_of_obs.     *)
(***************************************************************************)
\* the year fields: the two-digit years and a few years beyond
MaxYearField == 120
YearFields == 0..MaxYearField

\* an epoch of the record form, "YY MM DD hh mm ss.NNNNNNNNN", with the year field
YearRecordText(y) == ZeroPad(y, 2) \o <<" ", "0", "6", " ", "1", "3", " ", "0", "0", " ", "0", "0", " ", "3", "3", ".", "1", "7", "9", "9", "4", "7", "8", "0", "0">>

\* the content of a TIME OF FIRST OBS line with the year field
YearHeaderText(y) ==
    TimeOfObsText(MkEpoch(y, 6, 13, 0, 0, 33, 0, "TAI"), 1799478, <<"D", "O", "R">>)

NoYear == [st |-> "none", epoch |-> NoEpoch]

YearInit ==
    /\ y_pc = "field"
    /\ y_field \in YearFields
    /\ y_record = NoYear
    /\ y_header = NoYear
    /\ YearAlone

YearRecord ==
    /\ y_pc = "field"
    /\ y_record' = parse_in_timescale(YearRecordText(y_field), "TAI")
    /\ y_pc' = "record"
    /\ UNCHANGED <<y_field, y_header>>
    /\ UNCHANGED yearOthers

YearHeader ==
    /\ y_pc = "record"
    /\ y_header' = parse_time_of_obs(PadRight(YearHeaderText(y_field), 60))
    /\ y_pc' = "header"
    /\ UNCHANGED <<y_field, y_record>>
    /\ UNCHANGED yearOthers

YearNext == YearRecord \/ YearHeader

(***************************************************************************)
(* The queries of DORIS on its header: ground_station and is_merged         *)
(***************************************************************************)
\* Matcher: the variant, and its value in the field of its kind
MkMatcher(kind, code, text, domes) == [kind |-> kind, code |-> code, text |-> text, domes |-> domes]
MatcherID(code) == MkMatcher("ID", code, <<>>, NoDomes)
MatcherSite(site) == MkMatcher("Site", 0, site, NoDomes)
MatcherLabel(label) == MkMatcher("Label", 0, label, NoDomes)
MatcherDOMES(domes) == MkMatcher("DOMES", 0, <<>>, domes)

\* GroundStation::matches
matches(station, matcher) ==
    CASE matcher.kind = "ID" -> station.code = matcher.code
      [] matcher.kind = "Site" -> station.site = matcher.text
      [] matcher.kind = "DOMES" -> station.domes = matcher.domes
      [] matcher.kind = "Label" -> station.label = matcher.text

\* DORIS::ground_station: the first station of the header that matches
ground_station(doris, matcher) ==
    LET roster == doris.header.ground_stations IN
    IF \E i \in 1..Len(roster) : matches(roster[i], matcher)
    THEN Some(roster[CHOOSE i \in 1..Len(roster) :
                        /\ matches(roster[i], matcher)
                        /\ \A j \in 1..(i - 1) : ~matches(roster[j], matcher)])
    ELSE None

\* DORIS::is_merged: a comment of the header is equal to "FILE MERGE"
is_merged(doris) ==
    \E i \in 1..Len(doris.header.comments) : doris.header.comments[i] = <<"F", "I", "L", "E", " ", "M", "E", "R", "G", "E">>

\* LowerHex for TimeScale
TimeScaleHex(ts) ==
    CASE ts = "UTC" -> <<"U", "T", "C">>
      [] ts = "TAI" -> <<"T", "A", "I">>
      [] OTHER -> <<"G", "P", "S", "T">>

\* Header::merge_comment, on the formatted package version and a timestamp
\* given in UTC
merge_comment(formatted_version, timestamp) ==
    <<"d", "o", "r", "i", "s", "-", "r", "s", " ", "v">> \o formatted_version \o <<" ">>
    \o PadLeft(<<"F", "I", "L", "E", " ", "M", "E", "R", "G", "E">>, 19 - Len(formatted_version))
    \o Rep(" ", 10)
    \o NatToStr(timestamp.y) \o ZeroPad(timestamp.m, 2) \o ZeroPad(timestamp.d, 2) \o <<" ">>
    \o ZeroPad(timestamp.hh, 2) \o ZeroPad(timestamp.mm, 2) \o ZeroPad(timestamp.ss, 2)
    \o <<" ">> \o TimeScaleHex(timestamp.ts)

\* Header::push_comment
push_comment(h, comment) == [h EXCEPT !.comments = Append(@, comment)]

\* the rosters, the comments and the matchers of the queries
Toulouse == RosterStation(13, <<"T", "L", "S", "B">>, <<"T", "O", "U", "L", "O", "U", "S", "E">>)
QueryRosters == {<<>>, Roster, <<Toulouse>> \o Roster}
QueryComments ==
    {<<>>, <<<<"F", "I", "L", "E", " ", "M", "E", "R", "G", "E">>>>, <<<<"D", "O", "R", "I", "S", " ", "M", "E", "A", "S", "U", "R", "E", "M", "E", "N", "T", "S">>>>,
     <<<<"D", "O", "R", "I", "S", " ", "M", "E", "A", "S", "U", "R", "E", "M", "E", "N", "T", "S">>, <<"F", "I", "L", "E", " ", "M", "E", "R", "G", "E">>>>, <<<<"M", "E", "R", "G", "E", "D">>, <<"f", "i", "l", "e", " ", "m", "e", "r", "g", "e">>>>}
QuerySites == {<<"T", "O", "U", "L", "O", "U", "S", "E">>, <<"t", "o", "u", "l", "o", "u", "s", "e">>, <<"T", "o", "u", "l", "o", "u", "s", "e">>, <<"O", "W", "E", "N", "G", "A">>, <<"o", "w", "e", "n", "g", "a">>, <<"P", "A", "R", "I", "S">>}
QueryLabels == {<<"T", "L", "S", "B">>, <<"t", "l", "s", "b">>, <<"G", "R", "F", "B">>, <<"g", "r", "f", "b">>, <<"X", "X", "X", "X">>}
Matchers ==
    {MatcherID(code) : code \in {1, 2, 13, UnknownCode}}
    \cup {MatcherSite(site) : site \in QuerySites}
    \cup {MatcherLabel(label) : label \in QueryLabels}
    \cup {MatcherDOMES(Toulouse.domes), MatcherDOMES(NoDomes)}
MergeTimestamps ==
    {MkEpoch(2018, 6, 13, 0, 0, 28, 0, "UTC"), MkEpoch(2020, 12, 31, 23, 59, 59, 0, "UTC")}

\* an answer not asked for yet
NoAnswer == [asked |-> FALSE, val |-> <<>>]
Answer(v) == [asked |-> TRUE, val |-> v]

QueryInit ==
    /\ q_pc = "built"
    /\ \E roster \in QueryRosters, comments \in QueryComments :
          q_doris = DorisNew([HeaderDefault EXCEPT !.ground_stations = roster,
                                                   !.comments = comments],
                             RecordDefault)
    /\ q_matcher \in Matchers
    /\ q_found = NoAnswer
    /\ q_merged = NoAnswer
    /\ QueryAlone

\* doris.ground_station(matcher)
GroundStationQuery ==
    /\ ~q_found.asked
    /\ q_found' = Answer(ground_station(q_doris, q_matcher))
    /\ UNCHANGED <<q_pc, q_doris, q_matcher, q_merged>>
    /\ UNCHANGED queryOthers

\* doris.header.push_comment(&Header::merge_comment(version, timestamp))
PushMergeComment ==
    /\ q_pc = "built"
    /\ ~q_merged.asked
    /\ \E timestamp \in MergeTimestamps :
          q_doris' = [q_doris EXCEPT
                         !.header = push_comment(@, merge_comment(PkgVersion, timestamp))]
    /\ q_pc' = "merged"
    /\ UNCHANGED <<q_matcher, q_found, q_merged>>
    /\ UNCHANGED queryOthers

\* doris.is_merged()
IsMerged ==
    /\ ~q_merged.asked
    /\ q_merged' = Answer(is_merged(q_doris))
    /\ UNCHANGED <<q_pc, q_doris, q_matcher, q_found>>
    /\ UNCHANGED queryOthers

QueryNext == GroundStationQuery \/ PushMergeComment \/ IsMerged

(***************************************************************************)
(* fmt_doris on contents of every length up to two lines and beyond         *)
(***************************************************************************)
MaxContent == 125

\* the contents: the first n characters of a repeated pattern
ContentOf(pattern, n) == [i \in 1..n |-> pattern[((i - 1) % Len(pattern)) + 1]]
FmtPatterns == {<<"0", "1", "2", "3", "4", "5", "6", "7", "8", "9">>, <<"D", "O", "R", "I", "S", " ", "m", "e", "a", "s", "u", "r", "e", "m", "e", "n", "t", " ", "f", "i", "l", "e", ",", " ">>}
FmtContents == {ContentOf(pattern, n) : pattern \in FmtPatterns, n \in 0..MaxContent}
FmtMarkers == {<<"C", "O", "M", "M", "E", "N", "T">>, <<"S", "Y", "S", " ", "/", " ", "#", " ", "/", " ", "O", "B", "S", " ", "T", "Y", "P", "E", "S">>}

FmtInit ==
    /\ t_pc = "content"
    /\ t_content \in FmtContents
    /\ t_marker \in FmtMarkers
    /\ t_out = <<>>
    /\ FmtAlone

\* fmt_doris(content, marker)
FmtDoris ==
    /\ t_pc = "content"
    /\ t_out' = fmt_doris(t_content, t_marker)
    /\ t_pc' = "formatted"
    /\ UNCHANGED <<t_content, t_marker>>
    /\ UNCHANGED fmtOthers

FmtNext == FmtDoris

(***************************************************************************)
(* SNR: from_str, then the "{:x}" form of the files                        *)
(***************************************************************************)
\* Display for SNR: the verbose form
SNRDisplay(snr) ==
    CASE snr = "DbHz0" -> <<"<", "<", " ", "1", "2", " ", "d", "B">>
      [] snr = "DbHz12" -> <<"<", " ", "1", "2", " ", "d", "B">>
      [] snr = "DbHz12_17" -> <<"[", "1", "2", ",", " ", "1", "7", "[", " ", "d", "B">>
      [] snr = "DbHz18_23" -> <<"[", "1", "8", ",", " ", "2", "3", "[", " ", "d", "B">>
      [] snr = "DbHz24_29" -> <<"[", "2", "4", ",", " ", "2", "9", "[", " ", "d", "B">>
      [] snr = "DbHz30_35" -> <<"[", "3", "0", ",", " ", "3", "5", "[", " ", "d", "B">>
      [] snr = "DbHz36_41" -> <<"[", "3", "6", ",", " ", "4", "1", "[", " ", "d", "B">>
      [] snr = "DbHz42_47" -> <<"[", "4", "2", ",", " ", "4", "7", "[", " ", "d", "B">>
      [] snr = "DbHz48_53" -> <<"[", "4", "8", ",", " ", "5", "3", "[", " ", "d", "B">>
      [] snr = "DbHz54" -> <<">", " ", "5", "4", " ", "d", "B">>

\* LowerHex for SNR: the digit of the files
SNRLowerHex(snr) ==
    CASE snr = "DbHz0" -> <<"0">>
      [] snr = "DbHz12" -> <<"1">>
      [] snr = "DbHz12_17" -> <<"2">>
      [] snr = "DbHz18_23" -> <<"3">>
      [] snr = "DbHz24_29" -> <<"4">>
      [] snr = "DbHz30_35" -> <<"5">>
      [] snr = "DbHz36_41" -> <<"6">>
      [] snr = "DbHz42_47" -> <<"7">>
      [] snr = "DbHz48_53" -> <<"8">>
      [] snr = "DbHz54" -> <<"9">>

\* Ord for SNR (derived): the rank of a variant in the declaration of the enum
SNRRank(snr) == CHOOSE i \in 1..Len(SNRNames) : SNRNames[i] = snr

\* the texts: every character of the alphabet, alone and with a blank before or
\* after, and the words of SNR::from_str
SnrTexts ==
    UNION {{<<Alphabet[i]>>, <<" ", Alphabet[i]>>, <<Alphabet[i], " ">>} :
              i \in 1..Len(Alphabet)}
    \cup {<<"b", "a", "d">>, <<"w", "e", "a", "k">>, <<"s", "t", "r", "o", "n", "g">>, <<"e", "x", "c", "e", "l", "l", "e", "n", "t">>, <<"1", "0">>, <<"g", "o", "o", "d">>, <<>>}

SnrInit ==
    /\ n_pc = "text"
    /\ n_text \in SnrTexts
    /\ n_snr = "-"
    /\ n_fmt = <<>>
    /\ SnrAlone

\* SNR::from_str(text)
SnrParse ==
    /\ n_pc = "text"
    /\ n_snr' = SNRFromStr(n_text).val
    /\ n_pc' = IF SNRFromStr(n_text).ok THEN "parsed" ELSE "failed"
    /\ UNCHANGED <<n_text, n_fmt>>
    /\ UNCHANGED snrOthers

\* format!("{:x}", snr)
SnrFormat ==
    /\ n_pc = "parsed"
    /\ n_fmt' = SNRLowerHex(n_snr)
    /\ n_pc' = "formatted"
    /\ UNCHANGED <<n_text, n_snr>>
    /\ UNCHANGED snrOthers

SnrNext == SnrParse \/ SnrFormat

(***************************************************************************)
(* Specifications: one per component, the others idle                      *)
(***************************************************************************)
Spec == RecordInit /\ [][RecordNext]_vars

SpecEpoch == EpochInit /\ [][EpochNext]_vars

SpecObservable == ObsInit /\ [][ObsNext]_vars

SpecStation == StationInit /\ [][StationNext]_vars

SpecHeader == HeaderInit /\ [][HeaderNext]_vars

SpecFacade == FacadeInit /\ [][FacadeNext]_vars

SpecYear == YearInit /\ [][YearNext]_vars
SpecQuery == QueryInit /\ [][QueryNext]_vars
SpecFmt == FmtInit /\ [][FmtNext]_vars
SpecSnr == SnrInit /\ [][SnrNext]_vars
(***************************************************************************)
(* The claims                                                              *)
(***************************************************************************)
\* C6: formatting the station parsed from a well-formed STATION REFERENCE line
\* (site of up to 30 characters) with the '{:x}' formatter yields the line.
C6_StationRoundTrip ==
    s_pc = "formatted" => s_fmt = s_line

\* C7: for every code x of {L1, L2, C1, C2, W1, W2, T, P, H, F}, the observable
\* parsed from x is displayed, and parsing the displayed text gives it again.
C7_ObservableRoundTrip ==
    /\ (o_text \in ObservableCodes => o_pc # "noarm")
    /\ (o_text \in ObservableCodes /\ o_pc = "reparsed" => o_second = o_first)

\* C8: parsing the record-form text written for an epoch gives the epoch back,
\* at nanosecond resolution.
C8_EpochRoundTrip ==
    e_pc = "parsed" => (e_parsed.st = "ok" /\ e_parsed.epoch = e_epoch)

(***************************************************************************)
(* The claims on the record                                                *)
(***************************************************************************)
\* the run started from a record, written by Record::format
FromRecord == r_source # RecordDefault

\* C1: for every header and every record on its roster and schema, Record::parse
\* of the text written by Record::format returns a record equal to the source.
C1_RecordRoundTrip ==
    (/\ FromRecord
     /\ \A i \in 1..Len(r_source.measurements) :
            \E j \in 1..Len(header.ground_stations) :
                header.ground_stations[j] = r_source.measurements[i].key.station
     /\ r_pc \in {"done", "failed"})
    => r_pc = "done" /\ record = r_source

\* the observation stored for an entry of the history, if any
StoredFor(e) ==
    LET at == MapGet(record.measurements, e.key)
        observable == header.observables[e.index + 1]
    IN  IF at # 0 /\ observable \in DOMAIN record.measurements[at].val.observations
        THEN [some |-> TRUE, val |-> record.measurements[at].val.observations[observable]]
        ELSE [some |-> FALSE, val |-> ObservationDefault]

\* C2: a non-blank cell at position i of a sub-block whose station resolves produces
\* an observation under the epoch, the station and header.observables[i], whose
\* value is the number written in the cell.
C2_CellValueStored ==
    ~FromRecord /\ r_pc = "done" =>
        \A i \in 1..Len(r_log) :
            (/\ r_log[i].block = r_log[i].key.station.code
             /\ \A j \in (i + 1)..Len(r_log) :
                    ~(r_log[j].key = r_log[i].key /\ r_log[j].index = r_log[i].index))
            => /\ StoredFor(r_log[i]).some
               /\ StoredFor(r_log[i]).val.value = r_log[i].written

\* the stream holds a 'D' line whose code matches no station of the roster
UnknownLine ==
    \E l \in 1..Len(StrLines(r_text)) :
        /\ StartsWith(StrLines(r_text)[l], <<"D">>)
        /\ InRange(StrLines(r_text)[l], 1, 3)
        /\ ~FindStation(header.ground_stations,
                        ParseUnsigned(Trim(Slice(StrLines(r_text)[l], 1, 3)), 65535)).some

\* C3: a 'D' line whose code matches no station of the roster does not fail the
\* parse, and nothing read from its sub-block is stored under any key.
C3_UnknownStationSkipped ==
    ~FromRecord /\ UnknownLine =>
        /\ r_pc # "failed"
        /\ \A i \in 1..Len(r_log) : r_log[i].block = r_log[i].key.station.code

PairLess(a, b) == EpochLess(a[1], b[1]) \/ (a[1] = b[1] /\ FlagLess(a[2], b[2]))
NonDecreasing(pairs) ==
    \A i \in 1..Len(pairs) : \A j \in (i + 1)..Len(pairs) : ~PairLess(pairs[j], pairs[i])
KeyPairs(r) ==
    [i \in 1..Len(r.measurements) |->
        <<r.measurements[i].key.epoch, r.measurements[i].key.flag>>]

StreamEpochs ==
    LET heads == SelectSeq(ReadLines(r_text), LAMBDA l : StartsWith(l, <<">">>))
    IN  [i \in 1..Len(heads) |-> ParseEpochHead(heads[i]).epoch]

HeaderFields(h) ==
    <<h.version, h.comments, h.satellite, h.program, h.run_by, h.date, h.observer,
      h.agency, h.cospar, h.observables, h.ground_stations,
      h.time_of_first_observation, h.time_of_last_observation>>

\* C5: Header round trip. Once the text written by Header::format for the header
\* of a conforming file is parsed again, the parse has succeeded and its header
\* equals the first one on version, comments, satellite, program, run_by, date,
\* observer, agency, COSPAR, observables, ground stations (in order) and the
\* times of first and last observation (time scale included).
C5_HeaderRoundTrip ==
    h_pc = "reparsed" =>
        /\ h_second.status = "end"
        /\ HeaderFields(h_second.h) = HeaderFields(h_first.h)

\* the observations of a record, as <<key, observable, value>>
RecordValues(rec) ==
    UNION {{<<rec.measurements[i].key, o, rec.measurements[i].val.observations[o].value>> :
               o \in DOMAIN rec.measurements[i].val.observations} :
           i \in 1..Len(rec.measurements)}

\* C4: Substract identity. For a DORIS with a determinable sampling period,
\* substract applied to itself succeeds and every observation of the result is 0.
C4_SubstractIdentity ==
    (f_pc \in {"loaded", "built"} /\ f_res.st # "none"
     /\ dominant_sampling_period(f_doris.val).some) =>
        /\ f_res.st = "ok"
        /\ \A v \in RecordValues(f_res.val.record) : v[3] = DecZero

\* the base name follows the SSSSSyyddd[.gz] convention
FollowsConvention(name) ==
    /\ Len(name) \in {10, 13}
    /\ AllDigits(Slice(name, 5, 10))
    /\ (Len(name) = 13 => ToUpper(SliceFrom(name, 10)) = <<".", "G", "Z">>)

\* C10: Filename derivation. For a DORIS loaded from a path whose base name
\* follows the convention, standard_filename is the upper-cased base name.
C10_StandardFilename ==
    (f_pc = "loaded" /\ f_out.some /\ FollowsConvention(f_name)) =>
        f_out.val = ToUpper(f_name)

\* the year an epoch decoder returned, 0 when it failed
YearRead(r) == IF r.st = "ok" THEN r.epoch.y ELSE 0

\* C11: Two-digit-year rule. In both decoders a year field y with 0 < y < 79 is
\* read as 2000 + y, and a year field y with 79 <= y <= 99 is read as 1900 + y.
C11_TwoDigitYear ==
    y_pc = "header" =>
        /\ (0 < y_field /\ y_field < 79) =>
              (YearRead(y_record) = 2000 + y_field /\ YearRead(y_header) = 2000 + y_field)
        /\ (79 <= y_field /\ y_field <= 99) =>
              (YearRead(y_record) = 1900 + y_field /\ YearRead(y_header) = 1900 + y_field)

\* the reader of the file fails during the parse
ReadFails(file) == \E i \in 1..Len(file) : file[i] = IoError

\* C12: If the reader returns an error while DORIS::parse reads header lines or
\* record lines, the parse returns that error: it never returns Ok with a header
\* or a record built from the content read so far.
C12_ReaderErrorReturned ==
    (f_pc \in {"loaded", "failed"} /\ ReadFails(f_file)) => f_doris.st = "IoError"

\* the population of a duration in a histogram, 0 when it is not there
Population(hist, dt) ==
    IF \E i \in 1..Len(hist) : hist[i][1] = dt
    THEN hist[CHOOSE i \in 1..Len(hist) : hist[i][1] = dt][2]
    ELSE 0

\* C13: For every record of at least two epochs, dominant_sampling_period()
\* returns the sampling period of highest population in sampling_histogram().
C13_DominantIsMostFrequent ==
    (f_period.asked /\ Len(epochs_iter(f_doris.val.record)) >= 2) =>
        /\ f_period.val.some
        /\ \A i \in 1..Len(sampling_histogram(f_doris.val)) :
              sampling_histogram(f_doris.val)[i][2]
                  <= Population(sampling_histogram(f_doris.val), f_period.val.val)

\* C14: When self holds fewer than two epochs, dominant_sampling_period() returns
\* no value and substract / substract_mut fail with UndeterminedSamplingRate,
\* leaving self (header, record, production attributes) unchanged.
C14_UndeterminedSamplingRate ==
    (f_pc \in {"loaded", "built"} /\ Len(epochs_iter(f_doris.val.record)) < 2) =>
        /\ f_period.asked => ~f_period.val.some
        /\ f_res.st # "none" =>
              (f_res.st = "UndeterminedSamplingRate" /\ f_res.val = f_doris.val)

\* a record of a single epoch, asked for its period and substracted
C14_Witness ==
    /\ f_pc \in {"loaded", "built"}
    /\ Len(epochs_iter(f_doris.val.record)) = 1
    /\ f_period.asked /\ ~f_period.val.some
    /\ f_res.st = "UndeterminedSamplingRate"

\* the type field and the constellation field of the first line of a file
TypeField(file) == Trim(Slice(StripFeed(file[1]), 20, 40))
ConstellationField(file) == Trim(Slice(StripFeed(file[1]), 40, 60))

DeclaredCount(file) ==
    IF \A i \in 1..Len(file) : ~IsObsTypes(file[i]) THEN 0
    ELSE LET i == CHOOSE i \in 1..Len(file) :
                      IsObsTypes(file[i]) /\ \A j \in 1..(i - 1) : ~IsObsTypes(file[j])
             n == ParseUnsigned(Trim(Slice(file[i], 3, 6)), 999)
         IN  IF n < 0 THEN 0 ELSE n

\* C16: After a successful Header::parse, the length of header.observables equals
\* the count declared in the first SYS / # / OBS TYPES line whenever that count is
\* not zero, continuation lines and unknown tokens included.
C16_DeclaredCount ==
    (h_first.status = "end" /\ DeclaredCount(h_file) # 0) =>
        Len(h_first.h.observables) = DeclaredCount(h_file)

\* the stations of a roster whose site, or label, is the text up to letter case
SameSite(roster, site) ==
    {i \in 1..Len(roster) : ToUpper(roster[i].site) = ToUpper(site)}
SameLabel(roster, label) ==
    {i \in 1..Len(roster) : ToUpper(roster[i].label) = ToUpper(label)}

\* C17: Station lookup by site name or by label is case insensitive:
\* ground_station(Matcher::Site(s)) (resp. Matcher::Label(l)) returns the station
\* of the roster whose site (resp. label) equals s (resp. l) up to letter case.
C17_CaseInsensitiveLookup ==
    q_found.asked =>
        /\ (q_matcher.kind = "Site"
                /\ SameSite(q_doris.header.ground_stations, q_matcher.text) # {}) =>
              (q_found.val.some
                  /\ ToUpper(q_found.val.val.site) = ToUpper(q_matcher.text))
        /\ (q_matcher.kind = "Label"
                /\ SameLabel(q_doris.header.ground_stations, q_matcher.text) # {}) =>
              (q_found.val.some
                  /\ ToUpper(q_found.val.val.label) = ToUpper(q_matcher.text))

\* C18: is_merged() returns true exactly when at least one comment of the header
\* contains the literal text FILE MERGE; it is true for a header to which the
\* comment built by Header::merge_comment was added.
C18_IsMerged ==
    q_merged.asked =>
        (q_merged.val <=>
            \E i \in 1..Len(q_doris.header.comments) :
                Contains(q_doris.header.comments[i], <<"F", "I", "L", "E", " ", "M", "E", "R", "G", "E">>))

\* the number of lines of a content: max(1, ceil(len / 60))
LinesOf(len) == IF len = 0 THEN 1 ELSE (len + 59) \div 60

\* the 60 content columns of lines, one after the other
RECURSIVE ContentColumns(_)
ContentColumns(lines) ==
    IF lines = <<>> THEN <<>>
    ELSE SubSeq(Head(lines), 1, 60) \o ContentColumns(Tail(lines))

\* C19: For every content and marker, fmt_doris returns max(1, ceil(len / 60))
\* lines; on every line the marker starts at column 60, and the 60 content
\* columns of the lines, in order and without the final padding, are the content.
C19_FmtDoris ==
    t_pc = "formatted" =>
        /\ Len(StrLines(t_out)) = LinesOf(Len(t_content))
        /\ \A i \in 1..Len(StrLines(t_out)) :
              /\ Len(StrLines(t_out)[i]) = 60 + Len(t_marker)
              /\ SubSeq(StrLines(t_out)[i], 61, 60 + Len(t_marker)) = t_marker
        /\ ContentColumns(StrLines(t_out))
              = PadRight(t_content, 60 * LinesOf(Len(t_content)))

\* a content of exactly two full lines, wrapped
C19_Witness ==
    /\ t_pc = "formatted"
    /\ Len(t_content) = 120
    /\ Len(StrLines(t_out)) = 2

\* C20: SNR round trip. For every digit d in '0'..'9', the "{:x}" form of the SNR
\* parsed from d is d again, and the ten digits map to ten distinct buckets in
\* increasing order.
C20_SnrRoundTrip ==
    (n_pc \in {"formatted", "failed"} /\ Len(n_text) = 1 /\ IsDigit(n_text[1])) =>
        /\ n_pc = "formatted"
        /\ n_fmt = n_text
        /\ \A i \in 1..10 :
              /\ SNRFromStr(<<Digits[i]>>).ok
              /\ (i - 1 < DigitVal(n_text[1])
                     <=> SNRRank(SNRFromStr(<<Digits[i]>>).val) < SNRRank(n_snr))

\* the last digit, parsed and formatted back
C20_Witness ==
    /\ n_pc = "formatted"
    /\ n_text = <<"9">>
    /\ n_snr = "DbHz54"
    /\ n_fmt = <<"9">>

\* the year a file name is derived from: the one of the production attributes,
\* else the one of the first observation, else 2000
NamedYear(doris) ==
    IF doris.production.some THEN doris.production.val.year
    ELSE IF doris.header.time_of_first_observation.some
    THEN doris.header.time_of_first_observation.val.y
    ELSE 2000

\* C21: standard_filename() always has the shape SSSSSyyddd[.gz]: exactly 5
\* satellite characters, then exactly 2 digits equal to the year modulo 100, then
\* exactly 3 digits of day of year, whatever the length of the header's satellite
\* name, with or without production attributes, for any year.
C21_FilenameShape ==
    (f_pc \in {"loaded", "built"} /\ f_out.some) =>
        /\ Len(f_out.val) \in {10, 13}
        /\ AllDigits(Slice(f_out.val, 5, 10))
        /\ Slice(f_out.val, 5, 7) = ZeroPad(NamedYear(f_doris.val) % 100, 2)
        /\ Len(f_out.val) = 13 => SliceFrom(f_out.val, 10) = <<".", "g", "z">>


\* the '>' lines of the stream, without their line feed
StreamHeads == SelectSeq(StrLines(r_text), LAMBDA l : StartsWith(l, <<">">>))

\* the clock offset written on an epoch line: the number of columns 38..52,
\* extrapolated when the text after column 52 trims to "1"
HeadClock(line) ==
    SomeClock(Trim(SliceFrom(line, CLOCK_OFFSET + CLOCK_SIZE)) = <<"1">>,
              ParseF64(Trim(Slice(line, CLOCK_OFFSET, CLOCK_OFFSET + CLOCK_SIZE))).val)

\* C22: after Record::parse, every entry of the measurements carries the clock
\* offset of the header line of its own epoch: the number of columns 38..52, and
\* extrapolated exactly when the text after column 52 of that line trims to "1".
C22_ClockOffsetOfOwnEpoch ==
    ~FromRecord /\ r_pc = "done" =>
        \A i \in 1..Len(record.measurements) :
            /\ \E h \in 1..Len(StreamHeads) :
                  ParseEpochHead(StreamHeads[h]).epoch = record.measurements[i].key.epoch
            /\ \A h \in 1..Len(StreamHeads) :
                  ParseEpochHead(StreamHeads[h]).epoch = record.measurements[i].key.epoch
                  => record.measurements[i].val.satellite_clock_offset
                         = HeadClock(StreamHeads[h])

\* a stream of two epochs, one measured offset and one extrapolated offset, was
\* parsed into entries of both epochs
C22_Witness ==
    /\ ~FromRecord
    /\ r_pc = "done"
    /\ \E i, j \in 1..Len(record.measurements) :
          /\ record.measurements[i].key.epoch # record.measurements[j].key.epoch
          /\ record.measurements[i].val.satellite_clock_offset.extrapolated
          /\ ~record.measurements[j].val.satellite_clock_offset.extrapolated
          /\ record.measurements[i].val.satellite_clock_offset.offset
                 # record.measurements[j].val.satellite_clock_offset.offset

\* the lines of the stream that the loop stacks: every line but the comments
StackedLines(lines) == SelectSeq(lines, LAMBDA l : ~IsComment(l))

\* the '>' lines among lines, counted
NumHeads(lines) ==
    Cardinality({i \in 1..Len(lines) :
                    ~IsComment(lines[i]) /\ StartsWith(lines[i], <<">">>)})

\* the lines of a block after its '>' line: up to the next '>' line
RECURSIVE BlockBody(_)
BlockBody(lines) ==
    IF lines = <<>> \/ StartsWith(Head(lines), <<">">>) THEN <<>>
    ELSE Head(lines) \o BlockBody(Tail(lines))

RECURSIVE BlockAt(_, _)
BlockAt(lines, k) ==
    IF lines = <<>> THEN <<>>
    ELSE IF StartsWith(Head(lines), <<">">>) /\ k = 1
    THEN Head(lines) \o BlockBody(Tail(lines))
    ELSE BlockAt(Tail(lines), IF StartsWith(Head(lines), <<">">>) THEN k - 1 ELSE k)

\* the k-th epoch block of the stream: its '>' line and the lines up to the next
\* '>' line, or to the end of the stream
StreamBlock(k) == BlockAt(StackedLines(ReadLines(r_text)), k)

\* the block in the buffer: the blocks of the stream less those yet to open
BlockIndex == NumHeads(ReadLines(r_text)) - NumHeads(reader)

\* a turn of the loop: a '>' line, or the end of the stream, dispatches the block in
\* the buffer, whole and once; the other turns dispatch nothing
DispatchStep ==
    r_pc = "reading" =>
        IF reader # <<>> /\ IsComment(Head(reader))
        THEN /\ record'.measurements = record.measurements
             /\ epoch_buf' = epoch_buf
        ELSE IF reader = <<>> \/ StartsWith(Head(reader), <<">">>)
        THEN /\ IF BlockIndex = 0
                THEN epoch_buf = <<>> => record' = record /\ r_log' = r_log
                ELSE /\ epoch_buf = StreamBlock(BlockIndex)
                     /\ r_pc' # "failed" =>
                            record' = ParseEpochBuf(StreamBlock(BlockIndex), header,
                                                    record, r_log).rec
             /\ reader = <<>> =>
                    r_pc' # "reading" /\ BlockIndex = NumHeads(ReadLines(r_text))
             /\ reader # <<>> /\ r_pc' = "reading" =>
                    /\ epoch_buf' = Head(reader)
                    /\ NumHeads(reader') = NumHeads(reader) - 1
        ELSE /\ record' = record
             /\ epoch_buf' = epoch_buf \o Head(reader)

\* a turn of the loop takes a line from the reader, or ends the loop: the loop
\* ends on every finite stream
TurnConsumes ==
    r_pc = "reading" => r_pc' # "reading" \/ Len(reader') = Len(reader) - 1

\* C23: for every stream of n epoch blocks, Record::parse dispatches each block
\* exactly once and in the order of the stream: the block dispatched at the k-th
\* '>' line after the first, or at the end of the stream, is block k, whole; the
\* last block is dispatched at the end of the stream, nothing is dispatched from
\* the empty buffer before the first '>', and every turn takes a line or ends
\* the loop.
C23_BlocksDispatchedOnce == [][DispatchStep /\ TurnConsumes]_vars

\* a stream of two epoch blocks and a comment was read to its end
C23_Witness ==
    /\ ~FromRecord
    /\ r_pc = "done"
    /\ NumHeads(ReadLines(r_text)) = 2
    /\ record.comments # <<>>
    /\ Len(record.measurements) >= 2

\* EpochFlag::from_str of the flag digit of an epoch line: the last column of the
\* epoch text
HeadFlag(line) == FlagNames[DigitVal(line[2 + EPOCH_SIZE]) + 1]

\* C24: an observation read from an epoch whose header line carries the flag
\* digit f is stored under a key whose flag is the EpochFlag of f, and two epoch
\* blocks of one instant with different flag digits give two distinct keys: every
\* (instant, flag) of a '>' line of the stream has its entry in the record, and
\* every entry has its '>' line.
C24_FlagOfKey ==
    ~FromRecord /\ r_pc = "done" =>
        /\ \A i \in 1..Len(record.measurements) :
              \E h \in 1..Len(StreamHeads) :
                  /\ ParseEpochHead(StreamHeads[h]).epoch = record.measurements[i].key.epoch
                  /\ HeadFlag(StreamHeads[h]) = record.measurements[i].key.flag
        /\ \A h \in 1..Len(StreamHeads) :
              (\E i \in 1..Len(record.measurements) :
                  record.measurements[i].key.epoch = ParseEpochHead(StreamHeads[h]).epoch)
              => \E i \in 1..Len(record.measurements) :
                  /\ record.measurements[i].key.epoch = ParseEpochHead(StreamHeads[h]).epoch
                  /\ record.measurements[i].key.flag = HeadFlag(StreamHeads[h])

\* the observable of cell p of a 'D' line is stored for the station of the line
CellKept(line, p) ==
    \E i \in 1..Len(record.measurements) :
        /\ MatchesID(record.measurements[i].key.station,
                     ParseUnsigned(Trim(Slice(line, 1, 3)), 65535))
        /\ header.observables[p + 1] \in DOMAIN record.measurements[i].val.observations

\* the value of cell p of a 'D' line is written, whole, on the line
CellWritten(line, p) ==
    /\ 3 + (OBSERVABLE_WIDTH + 2) * p + OBSERVABLE_WIDTH <= Len(line)
    /\ ParseF64(Trim(Slice(line, 3 + (OBSERVABLE_WIDTH + 2) * p,
                           3 + (OBSERVABLE_WIDTH + 2) * p + OBSERVABLE_WIDTH))).ok

\* C25: missing trailing fields are tolerated: a station line that ends right
\* after the 14-character value of its last cell, or right after the SNR of that
\* cell, still gives an observation for that cell, at every position 0..4 of the
\* line; every value written whole on a 'D' line of a station of the roster is
\* stored.
C25_TrailingFieldsTolerated ==
    ~FromRecord /\ r_pc = "done" =>
        \A l \in 1..Len(StrLines(r_text)) :
            (/\ StartsWith(StrLines(r_text)[l], <<"D">>)
             /\ FindStation(header.ground_stations,
                            ParseUnsigned(Trim(Slice(StrLines(r_text)[l], 1, 3)), 65535)).some)
            => \A p \in 0..4 :
                  p < Len(header.observables) /\ CellWritten(StrLines(r_text)[l], p)
                  => CellKept(StrLines(r_text)[l], p)

\* the text was written by Record::format
WrittenText == FromRecord /\ r_pc # "source"

\* a line that ends with a clock offset and its extrapolation mark
CarriesClock(line) ==
    /\ Len(line) >= CLOCK_SIZE + 2
    /\ line[Len(line)] \in {"0", "1"}
    /\ line[Len(line) - 1] = " "
    /\ IsDigit(line[Len(line) - 2])

\* C26: Record::format writes exactly one epoch header line per (epoch, flag),
\* each ended by one newline before any station block and before the next epoch
\* header, and carrying the clock offset at most once: the text has as many '>'
\* as (epoch, flag) pairs, every '>' and every 'D' is at column 0, no line is
\* empty, and a clock offset ends no other line than a '>' line, which carries
\* it once.
C26_OneEpochLine ==
    WrittenText =>
        /\ Cardinality({i \in 1..Len(r_text) : r_text[i] = ">"})
               = Len(epochs_iter(r_source))
        /\ \A i \in 2..Len(r_text) :
               r_text[i] \in {">", "D"} => r_text[i - 1] = "\n"
        /\ r_text # <<>> => r_text[Len(r_text)] = "\n"
        /\ \A l \in 1..Len(StrLines(r_text)) :
               /\ StrLines(r_text)[l] # <<>>
               /\ CarriesClock(StrLines(r_text)[l]) =>
                      /\ StartsWith(StrLines(r_text)[l], <<">">>)
                      /\ Len(StrLines(r_text)[l]) = CLOCK_OFFSET + CLOCK_SIZE + 1

\* the measurements written in the sub-block of a 'D' line: those of its station
\* (the entries of one station hold the same observations in every source record)
BlockMeasurements(line) ==
    r_source.measurements[
        CHOOSE i \in 1..Len(r_source.measurements) :
            MatchesID(r_source.measurements[i].key.station,
                      ParseUnsigned(Slice(line, 1, 3), 65535))].val

\* what cell i of a sub-block holds: the value in 14 columns, or blanks
CellText(measurements, i) ==
    IF header.observables[i + 1] \in DOMAIN measurements.observations
    THEN Fmt14_3(measurements.observations[header.observables[i + 1]].value)
    ELSE Rep(" ", OBSERVABLE_WIDTH)

\* cell i of the sub-block that opens at line l of lines is at its place
CellPlaced(lines, l, i, measurements) ==
    /\ l + (i \div 5) <= Len(lines)
    /\ InRange(lines[l + (i \div 5)], 3 + (OBSERVABLE_WIDTH + 2) * (i % 5),
               3 + (OBSERVABLE_WIDTH + 2) * (i % 5) + OBSERVABLE_WIDTH)
    /\ Slice(lines[l + (i \div 5)], 3 + (OBSERVABLE_WIDTH + 2) * (i % 5),
             3 + (OBSERVABLE_WIDTH + 2) * (i % 5) + OBSERVABLE_WIDTH)
           = CellText(measurements, i)

\* the sub-blocks of lines hold every cell at its place
CellsPlaced(lines) ==
    \A l \in 1..Len(lines) :
        StartsWith(lines[l], <<"D">>) =>
            \A i \in 0..(Len(header.observables) - 1) :
                CellPlaced(lines, l, i, BlockMeasurements(lines[l]))

\* C27: in the text written by Record::format the observation of a station for
\* the i-th observable of the header occupies cell (i mod 5) of line floor(i/5)
\* of the sub-block of the station, a missing observation being written as a
\* blank cell of the same width, with a line break after every 5 observables
\* and at the end of the sub-block.
C27_CellPosition == WrittenText => CellsPlaced(StrLines(r_text))

\* the content of the TIME OF FIRST OBS line of a file, <<>> when it has none
FirstObsContent(file) ==
    IF \A i \in 1..Len(file) : ~Contains(file[i], <<"T", "I", "M", "E", " ", "O", "F", " ", "F", "I", "R", "S", "T", " ", "O", "B", "S">>) THEN <<>>
    ELSE Slice(file[CHOOSE i \in 1..Len(file) : Contains(file[i], <<"T", "I", "M", "E", " ", "O", "F", " ", "F", "I", "R", "S", "T", " ", "O", "B", "S">>)],
               0, 60)

RECURSIVE TenTo(_)
TenTo(n) == IF n = 0 THEN 1 ELSE 10 * TenTo(n - 1)

\* the digits behind the decimal point, as the fraction of a second, in ns
FractionNs(digits) == DigitsVal(digits) * TenTo(9 - Len(digits))

\* the time scale of a tag: TAI when the tag is empty or DOR
TaggedScale(tag) == IF tag \in {<<>>, <<"D", "O", "R">>, <<"T", "A", "I">>} THEN "TAI" ELSE tag

\* the instant written in the field
WrittenInstant(c) ==
    MkEpoch(DigitsVal(Trim(Slice(c, 0, 6))), DigitsVal(Trim(Slice(c, 6, 12))),
            DigitsVal(Trim(Slice(c, 12, 18))), DigitsVal(Trim(Slice(c, 18, 24))),
            DigitsVal(Trim(Slice(c, 24, 30))), DigitsVal(Trim(Slice(c, 30, 35))),
            FractionNs(Trim(Slice(c, 36, 44))), TaggedScale(Trim(SliceFrom(c, 44))))

\* C28: Header::parse_time_of_obs returns the instant written in the field: the
\* digits behind the decimal point are read as the decimal fraction of the
\* second whatever their number, in the tagged time scale, TAI when the tag is
\* empty or DOR.
C28_TimeOfObsInstant ==
    (h_first.status = "end" /\ FirstObsContent(h_file) # <<>>) =>
        h_first.h.time_of_first_observation = Some(WrittenInstant(FirstObsContent(h_file)))

\* C29: GroundStation::from_str returns a ParsingError, GroundStation or DOMES,
\* for every input shorter than the 56 columns it splits, lengths 40 to 55
\* included: it never aborts on a split out of range.
C29_ShortLineIsError ==
    (s_pc # "line" /\ Len(s_line) < 56) => s_station.st \in {"GroundStation", "DOMES"}

\* C30: Record::parse never aborts on an access out of range: for every stream
\* and every header it returns Ok or a ParsingError; no column slice is taken
\* past the end of a line and no cell is paired with an observable past the end
\* of header.observables.
C30_ParseNeverAborts == r_status # "panic"

====
